---- MODULE Spec2Model ----
(***************************************************************************)
(* The simulate command of solanastreaming-cli (src/cmd/simulate.go).      *)
(*                                                                         *)
(* One websocket connection is served by the handler of Execute: it reads  *)
(* subscribe requests, and on startSimulation starts the writer goroutine  *)
(* and calls RunSimulation.  RunSimulation unzips one data file (segment)  *)
(* after the other, starts one streamFromFile goroutine (decoder) per      *)
(* unzipped file, and merges the rows the decoders deliver over channels   *)
(* of capacity one, slot by slot, into the output feed.  Spec has one      *)
(* client; ServerSpec adds a second connection, served by the same handler *)
(* on the same SimulateTask.                                               *)
(*                                                                         *)
(* Failures of the file system (zip.OpenReader, os.Open, scanner.Err) and  *)
(* the events counter, which is only logged, are left out.  A write error  *)
(* of the websocket connection is permanent, as in gorilla/websocket.      *)
(***************************************************************************)
EXTENDS Integers, Sequences, FiniteSets, TLC

VARIABLES
    archive,      \* the .zip files of dataDir: segments, each a sequence of files, each a sequence of lines
    tmpFiles,     \* the unzipped interim files present on disk, as <<segment, file>>
    nextSubID,    \* SimulateTask.nextSubID
    pairsSubID,   \* SimulateTask.pairsSubID
    swapsSubID,   \* SimulateTask.swapsSubID
    outputFeed,   \* SimulateTask.outputFeed, a channel of capacity ChanCap
    pcH,          \* the connection handler: "read", "sim", "closed"
    pcOther,      \* the handler of a second connection: "off" (none), "read", "broken", "sim", "closed"
    writerB,      \* the writer goroutine started by the second connection's startSimulation
    params,       \* SimulateTask.params: fromDate and fromSlot
    wsBroken,     \* a write to the websocket has failed
    written,      \* the messages written to the websocket, in order
    writer,       \* the writer goroutine of Execute: its position and the envelope it holds
    pcS,          \* RunSimulation: "idle", "unzip", "drain", "sendPair", "sendSwap", "returned"
    simErr,       \* what RunSimulation returned: "none" (not yet), "nil", "err"
    seg,          \* dataFileNum + 1
    slot,         \* the cursor
    ci,           \* the index i of the stream being drained, from 1
    buffers,      \* buffers[i]: the row saved for later
    dones,        \* dones[i]
    ev,           \* the JSONRPC envelope being posted
    dec,          \* per unzipped file, the streamFromFile goroutine: its position and next line
    dataChans,    \* per unzipped file, its channel: queued rows and whether it is closed
    emitted,      \* history: the envelopes pushed to outputFeed, in order
    ticks,        \* history: the cursor value of every executed tick, in order
    variant,      \* the download command built: "dir" (part_001:1-363) or "manifest" (part_001:365-701)
    dlParams,     \* DownloadTask.params
    dlPc,         \* DownloadTask.Execute: "off", "init", "load", "loop", "report", "returned", "crashed"
    dlRet,        \* what Execute returned: "none" (not yet), "nil", "err"
    zips,         \* zips[f]: <f>.zip is in the output directory
    diskManifest, \* the manifest file: per file "absent", "failed" or "downloaded"
    manifest,     \* o.manifest.Files, the manifest in memory
    todo,         \* the files the loop ranges over
    idx,          \* the position of the loop in todo, from 1
    sem,          \* the weight held of the semaphore concurrency
    err,          \* the variable err of Execute, shared with the download goroutines
    cmdErr,       \* the variable cmdErr of Execute, shared with the download goroutines
    routine,      \* per file, its download goroutine: position, branch taken, manifest snapshot
    outcome,      \* history: per file, how its download ended in this run: "none", "ok", "failed"
    run,          \* history: the number of the run of the command, from 1
    rdPc,         \* ReduceTask.Execute: "off", "init", "loop", "check", "returned", "crashed"
    rdRet,        \* what ReduceTask.Execute returned: "none" (not yet), "nil", "err"
    rdConcurrency, \* ReduceTask.params.concurrency
    inFiles,      \* the archive files getDataFiles found
    rdIdx,        \* the position of the loop of ReduceTask.Execute in inFiles, from 1
    rdSem,        \* the weight held of the semaphore sem of ReduceTask.Execute
    errs,         \* the slice errs of ReduceTask.Execute, shared with the worker goroutines
    worker,       \* per input file, its goroutine: position, result of processFile, errs as read
    amms,         \* ReduceTask.amms
    baseTokenMints, \* ReduceTask.baseTokenMints
    wallets,      \* ReduceTask.wallets
    inRows,       \* the lines of the unzipped file processFile filters
    outRows,      \* the lines written to the filtered file, in order
    scanned       \* the number of lines of inRows that went through the filter

vars == <<archive, tmpFiles, nextSubID, pairsSubID, swapsSubID, outputFeed, pcH,
          pcOther, writerB, params, wsBroken, written, writer, pcS, simErr, seg, slot, ci, buffers,
          dones, ev, dec, dataChans, emitted, ticks,
          variant, dlParams, dlPc, dlRet, zips, diskManifest, manifest, todo, idx,
          sem, err, cmdErr, routine, outcome, run,
          rdPc, rdRet, rdConcurrency, inFiles, rdIdx, rdSem, errs, worker,
          amms, baseTokenMints, wallets, inRows, outRows, scanned>>

rdVars == <<rdPc, rdRet, rdConcurrency, inFiles, rdIdx, rdSem, errs, worker,
            amms, baseTokenMints, wallets, inRows, outRows, scanned>>

dlVars == <<variant, dlParams, dlPc, dlRet, zips, diskManifest, manifest, todo, idx,
            sem, err, cmdErr, routine, outcome, run>>

(***************************************************************************)
(* Bounds of the model.                                                    *)
(***************************************************************************)
MaxSubs == 2        \* subscribe requests answered before startSimulation
MaxSlot == 1        \* slots of the records of the enumerated archives: 0..MaxSlot
MaxFiles == 2       \* archive files of the order to download
MaxRuns == 2        \* runs of the download command on the same output directory
MaxConcurrency == 2 \* values of the concurrency flag of the runs that download: 0..MaxConcurrency
MaxConcurrencyIn == 12  \* values of the concurrency flag handed to validateParams: 0..MaxConcurrencyIn
MaxKey == 1         \* public keys: 0..MaxKey
MaxRows == 2        \* lines of the file processFile filters

(***************************************************************************)
(* Program constants.                                                      *)
(***************************************************************************)
ChanCap == 1        \* make(chan JSONRPC, 1), make(chan []byte, 1)
FirstSubID == 1     \* NewSimulateTask: nextSubID: 1
ConcurrencyLimit == 10  \* DownloadTask.validateParams: if o.params.concurrency > 10
DocumentedMax == 4      \* README, download input params: concurrency, Max: 4

(***************************************************************************)
(* Lines of a log file.  A line is a record (valid JSON of a DataFormat),  *)
(* an empty line, or a line that json.Unmarshal rejects.                   *)
(***************************************************************************)
Rec(n, p, s) == [t |-> "rec", slot |-> n, pair |-> p, swap |-> s]
P(n) == Rec(n, TRUE, FALSE)
S(n) == Rec(n, FALSE, TRUE)
PS(n) == Rec(n, TRUE, TRUE)
EmptyLine == [t |-> "empty", slot |-> 0, pair |-> FALSE, swap |-> FALSE]
BadLine == [t |-> "bad", slot |-> 0, pair |-> FALSE, swap |-> FALSE]

\* A row is the bytes of a line together with the place it was read from.
Row(line, k, i, n) == [line |-> line, at |-> <<k, i, n>>]
\* What a receive from a closed channel yields, and []byte{}: a row of length 0.
NilRow == [line |-> EmptyLine, at |-> <<0, 0, 0>>]

\* len(dataRow) == 0
IsEmpty(row) == row.line.t = "empty"

\* json.Unmarshal(dataRow, &data) into a DataFormat
Unmarshal(row) ==
    IF row.line.t = "rec"
    THEN [err |-> FALSE, Slot |-> row.line.slot, Pair |-> row.line.pair, Swap |-> row.line.swap]
    ELSE [err |-> TRUE, Slot |-> 0, Pair |-> FALSE, Swap |-> FALSE]

NoEvent == [Method |-> "", SubscriptionID |-> 0, Params |-> NilRow]

\* The unzipped files of an archive, as <<segment, file>>.
FileIds(a) == UNION {{<<k, i>> : i \in 1..Len(a[k])} : k \in 1..Len(a)}

(***************************************************************************)
(* The archives the model replays.  Within a file the slots of the records *)
(* are non-decreasing, as the source of the data guarantees; lines that    *)
(* are no records may stand anywhere.                                      *)
(***************************************************************************)
Slots == 0..MaxSlot

\* The files of at most two records of one kind, slots non-decreasing.
SortedFiles(K(_)) ==
    {<<>>} \cup {<<K(a)>> : a \in Slots}
           \cup UNION {{<<K(a), K(b)>> : b \in a..MaxSlot} : a \in Slots}

\* One segment, a file of pairs and a file of swaps.
TwoStreamArchives == {<<<<f, g>>>> : f \in SortedFiles(P), g \in SortedFiles(S)}

\* One segment, three files of one record each, the third carrying both fields.
ThreeStreamArchives == {<<<<<<P(a)>>, <<S(b)>>, <<PS(a)>>>>>> : a \in Slots, b \in Slots}

\* Two segments of one record per file.
TwoSegmentArchives ==
    {<<<<<<P(a)>>, <<S(b)>>>>, <<<<P(c)>>, <<S(b)>>>>>> : a \in Slots, b \in Slots, c \in Slots}
    \cup {<<<<<<PS(a)>>>>, <<<<PS(b)>>>>>> : a \in Slots, b \in Slots}

\* A line that is no record, first, in the middle and last in a file.
DefectArchives ==
    UNION {{ <<<<<<P(1), x, P(1)>>, <<S(1), S(2)>>>>>>,
             <<<<<<P(0)>>, <<S(0), x, S(1)>>>>>>,
             <<<<<<x, P(1)>>, <<S(1)>>>>>>,
             <<<<<<P(1), x>>>>>>,
             <<<<<<P(1)>>>>, <<<<x, P(1)>>, <<S(1), S(1)>>>>>>,
             <<<<<<P(1)>>>>, <<<<P(1)>>, <<S(1), x>>>>>> } : x \in {EmptyLine, BadLine}}

\* Three streams with records at slots [1,3,5], [2,2,4] and [].
ScenarioArchive == <<<< <<P(1), P(3), P(5)>>, <<S(2), S(2), S(4)>>, <<>> >>>>

Archives == TwoStreamArchives \cup ThreeStreamArchives \cup TwoSegmentArchives
            \cup DefectArchives \cup {ScenarioArchive}

\* Every unzipped file of every archive.
AllFileIds == UNION {FileIds(a) : a \in Archives}

(***************************************************************************)
(* getStartingSlot: the first line of every unzipped file of the first     *)
(* segment is decoded; startingSlot 0 stands for "not set yet".            *)
(***************************************************************************)
\* if data.Slot < startingSlot || startingSlot == 0 { startingSlot = data.Slot }
TakeFirstSlot(dataSlot, startingSlot) ==
    IF dataSlot < startingSlot \/ startingSlot = 0 THEN dataSlot ELSE startingSlot

RECURSIVE StartingSlotFrom(_, _, _)
StartingSlotFrom(files, i, startingSlot) ==
    IF i > Len(files) THEN [err |-> FALSE, slot |-> startingSlot]
    ELSE IF Len(files[i]) = 0 THEN StartingSlotFrom(files, i + 1, startingSlot)
    ELSE LET data == Unmarshal(Row(files[i][1], 1, i, 1))
         IN  IF data.err THEN [err |-> TRUE, slot |-> 0]
             ELSE StartingSlotFrom(files, i + 1, TakeFirstSlot(data.Slot, startingSlot))

getStartingSlot(unzippedFiles) == StartingSlotFrom(unzippedFiles, 1, 0)

(***************************************************************************)
(* The reduce command is not running.                                      *)
(***************************************************************************)
RdIdle ==
    /\ rdPc = "off"
    /\ rdRet = "none"
    /\ rdConcurrency = 10
    /\ inFiles = <<>>
    /\ rdIdx = 0
    /\ rdSem = 0
    /\ errs = <<>>
    /\ worker = <<>>
    /\ amms = {}
    /\ baseTokenMints = {}
    /\ wallets = {}
    /\ inRows = <<>>
    /\ outRows = <<>>
    /\ scanned = 0

(***************************************************************************)
(* The download command is not running.                                    *)
(***************************************************************************)
DlIdle ==
    /\ variant = "dir"
    /\ dlParams = [apiKey |-> "", orderID |-> 0, fileName |-> "", outputDir |-> "out",
                   concurrency |-> 1]
    /\ dlPc = "off"
    /\ dlRet = "none"
    /\ zips = <<>>
    /\ diskManifest = <<>>
    /\ manifest = <<>>
    /\ todo = <<>>
    /\ idx = 0
    /\ sem = 0
    /\ err = "nil"
    /\ cmdErr = "nil"
    /\ routine = <<>>
    /\ outcome = <<>>
    /\ run = 0

(***************************************************************************)
(* The flags of the simulate command.                                      *)
(***************************************************************************)
\* SetupParameters: from-date defaults to "", from-slot to 0
DefaultParams == [fromDate |-> "", fromSlot |-> 0]

\* if o.params.fromSlot != 0 && o.params.fromDate == "" { return errors.New(...) }
validateParams(p) == IF p.fromSlot # 0 /\ p.fromDate = "" THEN "err" ELSE "nil"

(***************************************************************************)
(* The state after NewSimulateTask, with the server listening and one      *)
(* client connected.                                                       *)
(***************************************************************************)
Init ==
    /\ archive \in Archives
    /\ DlIdle
    /\ RdIdle
    /\ tmpFiles = {}
    /\ nextSubID = FirstSubID
    /\ pairsSubID = 0
    /\ swapsSubID = 0
    /\ outputFeed = <<>>
    /\ pcH = "read"
    /\ pcOther = "off"
    /\ writerB = [pc |-> "none", v |-> NoEvent]
    /\ params = DefaultParams
    /\ wsBroken = FALSE
    /\ written = <<>>
    /\ writer = [pc |-> "none", v |-> NoEvent]
    /\ pcS = "idle"
    /\ simErr = "none"
    /\ seg = 0
    /\ slot = 0
    /\ ci = 0
    /\ buffers = <<>>
    /\ dones = <<>>
    /\ ev = NoEvent
    /\ dec = [d \in FileIds(archive) |-> [pc |-> "off", next |-> 1]]
    /\ dataChans = [d \in FileIds(archive) |-> [q |-> <<>>, closed |-> FALSE]]
    /\ emitted = <<>>
    /\ ticks = <<>>

simVars == <<pcS, simErr, seg, slot, ci, buffers, dones, ev, dec, dataChans,
             emitted, ticks, tmpFiles>>

(***************************************************************************)
(* The handler of the connection (Execute, the websocket func).            *)
(***************************************************************************)
\* c.WriteMessage of a subscribe response: ok says whether the write succeeds.
SubResponse(id) == [Method |-> "result", SubscriptionID |-> id, Params |-> NilRow]

\* case MethodNewPairSubscribe
NewPairSubscribe(ok) ==
    /\ pcH = "read"
    /\ nextSubID <= MaxSubs
    /\ ok => ~wsBroken
    /\ pairsSubID' = nextSubID
    /\ IF ok
       THEN /\ written' = Append(written, SubResponse(nextSubID))
            /\ nextSubID' = nextSubID + 1
            /\ UNCHANGED wsBroken
       ELSE /\ wsBroken' = TRUE
            /\ UNCHANGED <<written, nextSubID>>
    /\ UNCHANGED <<rdVars, dlVars, archive, params, pcOther, writerB, swapsSubID, outputFeed, pcH, writer>>
    /\ UNCHANGED simVars

\* case MethodSwapSubscribe
SwapSubscribe(ok) ==
    /\ pcH = "read"
    /\ nextSubID <= MaxSubs
    /\ ok => ~wsBroken
    /\ swapsSubID' = nextSubID
    /\ IF ok
       THEN /\ written' = Append(written, SubResponse(nextSubID))
            /\ nextSubID' = nextSubID + 1
            /\ UNCHANGED wsBroken
       ELSE /\ wsBroken' = TRUE
            /\ UNCHANGED <<written, nextSubID>>
    /\ UNCHANGED <<rdVars, dlVars, archive, params, pcOther, writerB, pairsSubID, outputFeed, pcH, writer>>
    /\ UNCHANGED simVars

\* default: an unknown method is logged and the loop goes on
UnknownMethod ==
    /\ pcH = "read"
    /\ UNCHANGED vars

\* c.ReadMessage or json.Unmarshal of the request fails: break, then c.Close()
ReadError ==
    /\ pcH = "read"
    /\ pcH' = "closed"
    /\ UNCHANGED <<rdVars, dlVars, archive, params, pcOther, writerB, nextSubID, pairsSubID, swapsSubID, outputFeed,
                   wsBroken, written, writer>>
    /\ UNCHANGED simVars

\* case MethodStartSimulation: the writer goroutine starts, RunSimulation is called
StartSimulation ==
    /\ pcH = "read"
    /\ pcH' = "sim"
    /\ writer' = [pc |-> "recv", v |-> NoEvent]
    /\ pcS' = "unzip"
    /\ seg' = 1
    /\ UNCHANGED <<rdVars, dlVars, archive, params, pcOther, writerB, nextSubID, pairsSubID, swapsSubID, outputFeed,
                   wsBroken, written>>
    /\ UNCHANGED <<simErr, slot, ci, buffers, dones, ev, dec, dataChans,
                   emitted, ticks, tmpFiles>>

\* A handler that leaves the switch instead of returning and reads on.
CloseConnectionBreak ==
    /\ pcH = "sim"
    /\ pcS = "returned"
    /\ pcH' = "read"
    /\ UNCHANGED <<rdVars, dlVars, archive, params, pcOther, writerB, nextSubID, pairsSubID, swapsSubID, outputFeed,
                   wsBroken, written, writer>>
    /\ UNCHANGED simVars

\* RunSimulation has returned: the handler returns and the deferred c.Close() runs
CloseConnection ==
    /\ pcH = "sim"
    /\ pcS = "returned"
    /\ pcH' = "closed"
    /\ UNCHANGED <<rdVars, dlVars, archive, params, pcOther, writerB, nextSubID, pairsSubID, swapsSubID, outputFeed,
                   wsBroken, written, writer>>
    /\ UNCHANGED simVars

(***************************************************************************)
(* A second connection to the same server.  http.HandleFunc runs the same  *)
(* handler in a goroutine of its own for every connection, and all of them *)
(* share the one SimulateTask o.  The second client sends subscribe        *)
(* requests; its responses go to its own websocket, whose write side is    *)
(* "broken" once a write has failed.                                       *)
(***************************************************************************)
\* case MethodNewPairSubscribe, on the second connection
OtherPairSubscribe(ok) ==
    /\ pcOther \in {"read", "broken"}
    /\ nextSubID <= MaxSubs
    /\ ok => pcOther = "read"
    /\ pairsSubID' = nextSubID
    /\ IF ok
       THEN /\ nextSubID' = nextSubID + 1
            /\ UNCHANGED pcOther
       ELSE /\ pcOther' = "broken"
            /\ UNCHANGED nextSubID
    /\ UNCHANGED <<rdVars, dlVars, archive, params, writerB, swapsSubID, outputFeed, pcH, wsBroken, written, writer>>
    /\ UNCHANGED simVars

\* case MethodSwapSubscribe, on the second connection
OtherSwapSubscribe(ok) ==
    /\ pcOther \in {"read", "broken"}
    /\ nextSubID <= MaxSubs
    /\ ok => pcOther = "read"
    /\ swapsSubID' = nextSubID
    /\ IF ok
       THEN /\ nextSubID' = nextSubID + 1
            /\ UNCHANGED pcOther
       ELSE /\ pcOther' = "broken"
            /\ UNCHANGED nextSubID
    /\ UNCHANGED <<rdVars, dlVars, archive, params, writerB, pairsSubID, outputFeed, pcH, wsBroken, written, writer>>
    /\ UNCHANGED simVars

\* c.ReadMessage fails on the second connection: break, then c.Close()
OtherReadError ==
    /\ pcOther \in {"read", "broken"}
    /\ pcOther' = "closed"
    /\ UNCHANGED <<rdVars, dlVars, archive, params, writerB, nextSubID, pairsSubID, swapsSubID, outputFeed, pcH,
                   wsBroken, written, writer>>
    /\ UNCHANGED simVars

(***************************************************************************)
(* streamFromFile: the goroutine that reads one unzipped file line by line *)
(* into its channel, deletes the file and closes the channel.              *)
(***************************************************************************)
FileOf(d) == archive[d[1]][d[2]]

\* A close(rows) that is left out.
CloseChanMissing(ch) == ch

\* close(rows)
CloseChan(ch) == [ch EXCEPT !.closed = TRUE]

\* A send that never waits for the receiver.
CanSendAlways(ch) == TRUE

\* rows <- buf can proceed: the channel is not full
CanSend(ch) == Len(ch.q) < ChanCap

\* for scanner.Scan() { ...; rows <- buf }: blocks while the channel is full
DecSend(d) ==
    /\ d \in DOMAIN dec
    /\ dec[d].pc = "stream"
    /\ dec[d].next <= Len(FileOf(d))
    /\ CanSend(dataChans[d])
    /\ dataChans' = [dataChans EXCEPT ![d].q =
                        Append(@, Row(FileOf(d)[dec[d].next], d[1], d[2], dec[d].next))]
    /\ dec' = [dec EXCEPT ![d].next = @ + 1]
    /\ UNCHANGED <<rdVars, dlVars, archive, params, pcOther, writerB, tmpFiles, nextSubID, pairsSubID, swapsSubID, outputFeed,
                   pcH, wsBroken, written, writer, pcS, simErr, seg, slot, ci,
                   buffers, dones, ev, emitted, ticks>>

\* scanner.Scan() returns false at the end of the file; os.Remove(fileName)
DecRemove(d) ==
    /\ d \in DOMAIN dec
    /\ dec[d].pc = "stream"
    /\ dec[d].next > Len(FileOf(d))
    /\ tmpFiles' = tmpFiles \ {d}
    /\ dec' = [dec EXCEPT ![d].pc = "close"]
    /\ UNCHANGED <<rdVars, dlVars, archive, params, pcOther, writerB, nextSubID, pairsSubID, swapsSubID, outputFeed, pcH,
                   wsBroken, written, writer, pcS, simErr, seg, slot, ci, buffers,
                   dones, ev, dataChans, emitted, ticks>>

\* close(rows); the goroutine ends
DecClose(d) ==
    /\ d \in DOMAIN dec
    /\ dec[d].pc = "close"
    /\ dataChans' = [dataChans EXCEPT ![d] = CloseChan(@)]
    /\ dec' = [dec EXCEPT ![d].pc = "done"]
    /\ UNCHANGED <<rdVars, dlVars, archive, params, pcOther, writerB, tmpFiles, nextSubID, pairsSubID, swapsSubID, outputFeed,
                   pcH, wsBroken, written, writer, pcS, simErr, seg, slot, ci,
                   buffers, dones, ev, emitted, ticks>>

(***************************************************************************)
(* RunSimulation.                                                          *)
(***************************************************************************)
\* A receive that does not wait for the decoder (a select with a default).
RecvReadyNoWait(ch) == TRUE

\* dataRow = <-dataChan can proceed: a row is queued or the channel is closed
RecvReady(ch) == Len(ch.q) > 0 \/ ch.closed

\* the value of <-dataChan: the oldest queued row, nil from a closed channel
RecvValue(ch) == IF Len(ch.q) > 0 THEN Head(ch.q) ELSE NilRow

\* the channel after the receive
RecvRest(ch) == IF Len(ch.q) > 0 THEN [ch EXCEPT !.q = Tail(@)] ELSE ch

\* if data.Slot > slot: the row is in the future
InFuture(dataSlot, cursor) == dataSlot > cursor

\* A post that does not look at the subscription.
WantsPairUnsubscribed(data) == data.Pair

\* o.pairsSubID != 0 && data.Pair != nil
WantsPair(data) == pairsSubID # 0 /\ data.Pair

\* o.swapsSubID != 0 && data.Swap != nil
WantsSwap(data) == swapsSubID # 0 /\ data.Swap

PairEvent(dataRow) ==
    [Method |-> "newPairNotification", SubscriptionID |-> pairsSubID, Params |-> dataRow]

SwapEvent(dataRow) ==
    [Method |-> "swapNotification", SubscriptionID |-> swapsSubID, Params |-> dataRow]

\* A flag that is flipped instead of set.
MarkDoneToggle(d, i) == [d EXCEPT ![i] = ~@]

\* dones[i] = true
MarkDone(d, i) == [d EXCEPT ![i] = TRUE]

\* A merge that ends with the first stream that is done.
AnyDone(d) == \E j \in 1..Len(d) : d[j]

\* done := true; for _, v := range dones { done = done && v }
AllDone(d) == \A j \in 1..Len(d) : d[j]

\* Where RunSimulation stands after the inner loop of stream i has ended with
\* done flags d: the next stream, the next tick, the next data file or return nil.
AfterStream(i, d) ==
    IF i < Len(d)
    THEN [pcS |-> "drain", seg |-> seg, slot |-> slot, ci |-> i + 1, simErr |-> "none", tick |-> FALSE]
    ELSE IF AllDone(d)
    THEN IF seg < Len(archive)
         THEN [pcS |-> "unzip", seg |-> seg + 1, slot |-> slot, ci |-> 0, simErr |-> "none", tick |-> FALSE]
         ELSE [pcS |-> "returned", seg |-> seg, slot |-> slot, ci |-> 0, simErr |-> "nil", tick |-> FALSE]
    ELSE [pcS |-> "drain", seg |-> seg, slot |-> slot + 1, ci |-> 1, simErr |-> "none", tick |-> TRUE]

Goto(c) ==
    /\ pcS' = c.pcS
    /\ seg' = c.seg
    /\ slot' = c.slot
    /\ ci' = c.ci
    /\ simErr' = c.simErr
    /\ ticks' = IF c.tick THEN Append(ticks, c.slot) ELSE ticks

\* return errors.Wrap(err, "cant unmarshal event")
ReturnErr ==
    /\ pcS' = "returned"
    /\ simErr' = "err"
    /\ UNCHANGED <<seg, slot, ci, ticks>>

\* A starting slot taken anew from every data file.
SegmentStartReset(k, files, cursor) == getStartingSlot(files)

\* if dataFileNum == 0 { slot, err = o.getStartingSlot(unzippedFiles) }
SegmentStart(k, files, cursor) ==
    IF k = 1 THEN getStartingSlot(files) ELSE [err |-> FALSE, slot |-> cursor]

\* One data file: unzip it to interim files, take the starting slot from the
\* first one, start a streamFromFile goroutine per file and enter the merge.
Unzip ==
    /\ pcS = "unzip"
    /\ LET files == archive[seg]
           n == Len(files)
           start == SegmentStart(seg, files, slot)
       IN  /\ tmpFiles' = tmpFiles \cup {<<seg, i>> : i \in 1..n}
           /\ IF start.err
              THEN /\ ReturnErr
                   /\ UNCHANGED <<buffers, dones, dec>>
              ELSE /\ dec' = [d \in DOMAIN dec |->
                                IF d[1] = seg THEN [dec[d] EXCEPT !.pc = "stream"] ELSE dec[d]]
                   /\ buffers' = [i \in 1..n |-> NilRow]
                   /\ dones' = [i \in 1..n |-> FALSE]
                   /\ IF n = 0
                      THEN Goto(AfterStream(0, <<>>))
                      ELSE /\ pcS' = "drain"
                           /\ slot' = start.slot
                           /\ ci' = 1
                           /\ ticks' = Append(ticks, start.slot)
                           /\ UNCHANGED <<seg, simErr>>
    /\ UNCHANGED <<rdVars, dlVars, archive, params, pcOther, writerB, nextSubID, pairsSubID, swapsSubID, outputFeed, pcH,
                   wsBroken, written, writer, ev, dataChans, emitted>>

\* One turn of the inner loop of stream ci, up to the next blocking operation.
Drain ==
    /\ pcS = "drain"
    /\ LET d == <<seg, ci>>
           fromBuf == ~IsEmpty(buffers[ci])
       IN  /\ fromBuf \/ RecvReady(dataChans[d])
           /\ LET dataRow == IF fromBuf THEN buffers[ci] ELSE RecvValue(dataChans[d])
                  data == Unmarshal(dataRow)
              IN  /\ dataChans' = IF fromBuf THEN dataChans
                                  ELSE [dataChans EXCEPT ![d] = RecvRest(@)]
                  /\ IF IsEmpty(dataRow)
                     THEN /\ dones' = MarkDone(dones, ci)
                          /\ Goto(AfterStream(ci, dones'))
                          /\ UNCHANGED <<buffers, ev>>
                     ELSE IF data.err
                     THEN /\ ReturnErr
                          /\ UNCHANGED <<buffers, dones, ev>>
                     ELSE IF InFuture(data.Slot, slot)
                     THEN /\ buffers' = [buffers EXCEPT ![ci] = dataRow]
                          /\ Goto(AfterStream(ci, dones))
                          /\ UNCHANGED <<dones, ev>>
                     ELSE /\ buffers' = [buffers EXCEPT ![ci] = NilRow]
                          /\ IF WantsPair(data)
                             THEN /\ ev' = PairEvent(dataRow)
                                  /\ pcS' = "sendPair"
                             ELSE IF WantsSwap(data)
                             THEN /\ ev' = SwapEvent(dataRow)
                                  /\ pcS' = "sendSwap"
                             ELSE /\ ev' = NoEvent
                                  /\ pcS' = "drain"
                          /\ UNCHANGED <<dones, seg, slot, ci, simErr, ticks>>
    /\ UNCHANGED <<rdVars, dlVars, archive, params, pcOther, writerB, tmpFiles, nextSubID, pairsSubID, swapsSubID, outputFeed,
                   pcH, wsBroken, written, writer, dec, emitted>>

\* o.outputFeed <- ev with the new pair: blocks while the feed is full
SendPair ==
    /\ pcS = "sendPair"
    /\ Len(outputFeed) < ChanCap
    /\ outputFeed' = Append(outputFeed, ev)
    /\ emitted' = Append(emitted, ev)
    /\ IF WantsSwap(Unmarshal(ev.Params))
       THEN /\ ev' = SwapEvent(ev.Params)
            /\ pcS' = "sendSwap"
       ELSE /\ ev' = NoEvent
            /\ pcS' = "drain"
    /\ UNCHANGED <<rdVars, dlVars, archive, params, pcOther, writerB, tmpFiles, nextSubID, pairsSubID, swapsSubID, pcH,
                   wsBroken, written, writer, simErr, seg, slot, ci, buffers,
                   dones, dec, dataChans, ticks>>

\* o.outputFeed <- ev with the swap: blocks while the feed is full
SendSwap ==
    /\ pcS = "sendSwap"
    /\ Len(outputFeed) < ChanCap
    /\ outputFeed' = Append(outputFeed, ev)
    /\ emitted' = Append(emitted, ev)
    /\ ev' = NoEvent
    /\ pcS' = "drain"
    /\ UNCHANGED <<rdVars, dlVars, archive, params, pcOther, writerB, tmpFiles, nextSubID, pairsSubID, swapsSubID, pcH,
                   wsBroken, written, writer, simErr, seg, slot, ci, buffers,
                   dones, dec, dataChans, ticks>>

(***************************************************************************)
(* The writer goroutine started on startSimulation.                        *)
(***************************************************************************)
\* v, open := <-o.outputFeed
WriterRecv ==
    /\ writer.pc = "recv"
    /\ Len(outputFeed) > 0
    /\ writer' = [pc |-> "write", v |-> Head(outputFeed)]
    /\ outputFeed' = Tail(outputFeed)
    /\ UNCHANGED <<rdVars, dlVars, archive, params, pcOther, writerB, nextSubID, pairsSubID, swapsSubID, pcH, wsBroken, written>>
    /\ UNCHANGED simVars

\* c.WriteMessage(websocket.TextMessage, raw): on an error the goroutine ends
WriterWrite(ok) ==
    /\ writer.pc = "write"
    /\ ok => (~wsBroken /\ pcH # "closed")
    /\ IF ok
       THEN /\ written' = Append(written, writer.v)
            /\ writer' = [pc |-> "recv", v |-> NoEvent]
            /\ UNCHANGED wsBroken
       ELSE /\ wsBroken' = TRUE
            /\ writer' = [pc |-> "exit", v |-> NoEvent]
            /\ UNCHANGED written
    /\ UNCHANGED <<rdVars, dlVars, archive, params, pcOther, writerB, nextSubID, pairsSubID, swapsSubID, outputFeed, pcH>>
    /\ UNCHANGED simVars

Next ==
    \/ NewPairSubscribe(TRUE)
    \/ SwapSubscribe(TRUE)
    \/ NewPairSubscribe(FALSE)
    \/ SwapSubscribe(FALSE)
    \/ UnknownMethod
    \/ ReadError
    \/ StartSimulation
    \/ CloseConnection
    \/ Unzip
    \/ Drain
    \/ SendPair
    \/ SendSwap
    \/ \E d \in AllFileIds : DecSend(d)
    \/ \E d \in AllFileIds : DecRemove(d)
    \/ \E d \in AllFileIds : DecClose(d)
    \/ WriterRecv
    \/ \E ok \in BOOLEAN : WriterWrite(ok)

Spec == Init /\ [][Next]_vars

(***************************************************************************)
(* The server with two clients connected.                                  *)
(***************************************************************************)
\* One data file with a log of pairs, a log of swaps and a log of records with both.
ServerArchives == {<<<<<<P(0)>>, <<S(0)>>, <<PS(0)>>>>>>}

ServerInit ==
    /\ archive \in ServerArchives
    /\ DlIdle
    /\ RdIdle
    /\ tmpFiles = {}
    /\ nextSubID = FirstSubID
    /\ pairsSubID = 0
    /\ swapsSubID = 0
    /\ outputFeed = <<>>
    /\ pcH = "read"
    /\ pcOther = "read"
    /\ writerB = [pc |-> "none", v |-> NoEvent]
    /\ params = DefaultParams
    /\ wsBroken = FALSE
    /\ written = <<>>
    /\ writer = [pc |-> "none", v |-> NoEvent]
    /\ pcS = "idle"
    /\ simErr = "none"
    /\ seg = 0
    /\ slot = 0
    /\ ci = 0
    /\ buffers = <<>>
    /\ dones = <<>>
    /\ ev = NoEvent
    /\ dec = [d \in FileIds(archive) |-> [pc |-> "off", next |-> 1]]
    /\ dataChans = [d \in FileIds(archive) |-> [q |-> <<>>, closed |-> FALSE]]
    /\ emitted = <<>>
    /\ ticks = <<>>

ServerNext ==
    \/ Next
    \/ OtherPairSubscribe(TRUE)
    \/ OtherSwapSubscribe(TRUE)
    \/ OtherPairSubscribe(FALSE)
    \/ OtherSwapSubscribe(FALSE)
    \/ OtherReadError

ServerSpec == ServerInit /\ [][ServerNext]_vars

(***************************************************************************)
(* One client after the other: the first connection has ended before the   *)
(* second client sends its first request.                                  *)
(***************************************************************************)
LaterNext ==
    \/ pcOther # "closed" /\ OtherPairSubscribe(TRUE)
    \/ pcOther # "closed" /\ OtherSwapSubscribe(TRUE)
    \/ pcOther # "closed" /\ OtherPairSubscribe(FALSE)
    \/ pcOther # "closed" /\ OtherSwapSubscribe(FALSE)
    \/ pcOther # "closed" /\ OtherReadError
    \/ pcOther = "closed" /\ NewPairSubscribe(TRUE)
    \/ pcOther = "closed" /\ SwapSubscribe(TRUE)
    \/ pcOther = "closed" /\ NewPairSubscribe(FALSE)
    \/ pcOther = "closed" /\ SwapSubscribe(FALSE)
    \/ pcOther = "closed" /\ UnknownMethod
    \/ pcOther = "closed" /\ ReadError
    \/ pcOther = "closed" /\ StartSimulation
    \/ CloseConnection
    \/ Unzip
    \/ Drain
    \/ SendPair
    \/ SendSwap
    \/ \E d \in AllFileIds : DecSend(d)
    \/ \E d \in AllFileIds : DecRemove(d)
    \/ \E d \in AllFileIds : DecClose(d)
    \/ WriterRecv
    \/ \E ok \in BOOLEAN : WriterWrite(ok)

LaterSpec == ServerInit /\ [][LaterNext]_vars

(***************************************************************************)
(* Fairness: the Go scheduler runs every goroutine that can take a step.   *)
(* FairSpec lets RunSimulation and the streamFromFile goroutines progress; *)
(* SinkSpec also lets the writer progress, its writes succeeding whenever  *)
(* they can.                                                               *)
(***************************************************************************)
RunSimulationStep == Unzip \/ Drain \/ SendPair \/ SendSwap

DecoderStep(d) == DecSend(d) \/ DecRemove(d) \/ DecClose(d)

FairSpec ==
    /\ Spec
    /\ WF_vars(RunSimulationStep)
    /\ \A d \in AllFileIds : WF_vars(DecoderStep(d))

SinkSpec ==
    /\ FairSpec
    /\ WF_vars(WriterRecv)
    /\ WF_vars(WriterWrite(TRUE))

\* The handler goroutine goes on once RunSimulation has returned.
DisconnectSpec ==
    /\ Spec
    /\ WF_vars(CloseConnection)

(***************************************************************************)
(* Notions the properties are stated with.                                 *)
(***************************************************************************)
IsPrefix(s, t) == Len(s) <= Len(t) /\ \A j \in 1..Len(s) : s[j] = t[j]

\* The rows of file d the Synchronizer has received so far.
Consumed(d) == dec[d].next - 1 - Len(dataChans[d].q)

\* The merge of segment k has terminated normally.
MergeEnded(k) == seg > k \/ (seg = k /\ pcS = "returned" /\ simErr = "nil")

\* Every line of the archive is a record.
AllRecords(a) == \A d \in FileIds(a) : \A n \in 1..Len(a[d[1]][d[2]]) : a[d[1]][d[2]][n].t = "rec"

\* Within every file the slots of the records are non-decreasing.
StreamsSorted(a) ==
    \A d \in FileIds(a) : \A m, n \in 1..Len(a[d[1]][d[2]]) :
        LET f == a[d[1]][d[2]]
        IN  (m < n /\ f[m].t = "rec" /\ f[n].t = "rec") => f[m].slot <= f[n].slot

\* A line that is no record: one json.Unmarshal rejects, or an empty line
\* followed by further lines of its file.
Malformed(f, n) == f[n].t = "bad" \/ (f[n].t = "empty" /\ n < Len(f))

HasMalformedLine(a) ==
    \E d \in FileIds(a) : \E n \in 1..Len(a[d[1]][d[2]]) : Malformed(a[d[1]][d[2]], n)

\* The slots of the first records of the files of a segment, and their minimum.
FirstKeys(files) == {files[i][1].slot : i \in {j \in 1..Len(files) : Len(files[j]) > 0}}

MinOf(keys) == CHOOSE x \in keys : \A y \in keys : x <= y

(***************************************************************************)
(* C1: for an archive whose streams are each non-decreasing in slot, the   *)
(* records pushed to the output feed are non-decreasing in slot over the   *)
(* whole replay, across streams and across data files.                     *)
(***************************************************************************)
C1_OutputNonDecreasing ==
    StreamsSorted(archive) =>
        \A j, k \in 1..Len(emitted) :
            j < k => emitted[j].Params.line.slot <= emitted[k].Params.line.slot

(***************************************************************************)
(* C2: among emissions of one segment with the same slot a record of a     *)
(* later stream never precedes a record of an earlier stream, and two      *)
(* records of one stream are emitted in their order in the log.            *)
(***************************************************************************)
C2_EqualKeyOrder ==
    \A j, k \in 1..Len(emitted) :
        LET a == emitted[j].Params
            b == emitted[k].Params
        IN  j < k =>
              /\ (a.at[1] = b.at[1] /\ a.at[2] = b.at[2]) => a.at[3] <= b.at[3]
              /\ (a.at[1] = b.at[1] /\ a.line.slot = b.line.slot) => a.at[2] <= b.at[2]

(***************************************************************************)
(* C3: one segment with streams A, B, C at slots [1,3,5], [2,2,4] and [],  *)
(* pairs and swaps subscribed: the merge emits A@1, B@2, B@2, A@3, B@4,    *)
(* A@5 in that order, the cursor starts at 1, takes every value 1..5 and   *)
(* the merge terminates at cursor 5.                                       *)
(***************************************************************************)
\* An emission as <<stream, line, slot, method>>.
Emission(e) == <<e.Params.at[2], e.Params.at[3], e.Params.line.slot, e.Method>>

ScenarioOutput ==
    << <<1, 1, 1, "newPairNotification">>, <<2, 1, 2, "swapNotification">>,
       <<2, 2, 2, "swapNotification">>, <<1, 2, 3, "newPairNotification">>,
       <<2, 3, 4, "swapNotification">>, <<1, 3, 5, "newPairNotification">> >>

ScenarioRuns == archive = ScenarioArchive /\ pairsSubID # 0 /\ swapsSubID # 0 /\ pcS # "idle"

\* C3: the scenario's emissions, ticks and final cursor.
C3_Scenario ==
    ScenarioRuns =>
        /\ IsPrefix([j \in 1..Len(emitted) |-> Emission(emitted[j])], ScenarioOutput)
        /\ IsPrefix(ticks, <<1, 2, 3, 4, 5>>)
        /\ pcS \in {"drain", "sendPair", "sendSwap"} => slot = ticks[Len(ticks)]
        /\ pcS = "returned" =>
              /\ simErr = "nil"
              /\ Len(emitted) = Len(ScenarioOutput)
              /\ ticks = <<1, 2, 3, 4, 5>>
              /\ slot = 5

C3_Witness == ScenarioRuns /\ pcS = "returned" /\ Len(emitted) = 6

(***************************************************************************)
(* C4: when the sink keeps draining, RunSimulation, once called, returns:  *)
(* every stream of every segment yields its end, the merge loop of every   *)
(* segment exits and the last one is followed by the return.               *)
(***************************************************************************)
C4_Returned ==
    /\ pcS = "returned"
    /\ AllRecords(archive) =>
          (simErr = "nil" /\ seg = Len(archive) /\ \A i \in DOMAIN dones : dones[i])

\* C4: a started replay leads to the return, unless a write to the sink failed.
C4_Terminates == (pcH = "sim") ~> (C4_Returned \/ wsBroken)

C4_Witness ==
    /\ pcS = "returned"
    /\ simErr = "nil"
    /\ seg = 2
    /\ ~wsBroken
    /\ Len(emitted) >= 2
    /\ \A i \in DOMAIN dones : dones[i]
    /\ \A d \in DOMAIN dec : dataChans[d].closed

(***************************************************************************)
(* C5: the merge of a segment never terminates while a stream of it still  *)
(* holds lines that were not delivered: when the merge of a segment has    *)
(* terminated, every line of every file of the segment has been consumed.  *)
(***************************************************************************)
C5_NoEarlyTermination ==
    \A d \in DOMAIN dec :
        MergeEnded(d[1]) => Consumed(d) = Len(FileOf(d))

(***************************************************************************)
(* C6: every envelope pushed with the new-pair subscription's id carries a *)
(* pair record under newPairNotification, and every envelope pushed with   *)
(* the swap subscription's id a swap record under swapNotification.        *)
(***************************************************************************)
C6_OnlyOwnCategory ==
    \A j \in 1..Len(emitted) :
        LET e == emitted[j]
        IN  /\ e.SubscriptionID = pairsSubID =>
                  (e.Method = "newPairNotification" /\ e.Params.line.pair)
            /\ e.SubscriptionID = swapsSubID =>
                  (e.Method = "swapNotification" /\ e.Params.line.swap)

(***************************************************************************)
(* C7: what a replay emits is a function of the archive and of the         *)
(* subscriptions alone.  ReferenceReplay is that function: the merge run   *)
(* with every row at hand, no goroutine and no channel.                    *)
(***************************************************************************)
RefEvents(p, s, row) ==
    (IF p # 0 /\ row.line.pair
     THEN <<[Method |-> "newPairNotification", SubscriptionID |-> p, Params |-> row]>>
     ELSE <<>>)
    \o
    (IF s # 0 /\ row.line.swap
     THEN <<[Method |-> "swapNotification", SubscriptionID |-> s, Params |-> row]>>
     ELSE <<>>)

\* st: segment k, cursor c, stream i, per stream the next line pos, the line
\* held back la (0: none) and the done flag dn, and the output so far.
RECURSIVE RefMerge(_, _, _, _)
RefMerge(a, p, s, st) ==
    LET files == a[st.k]
        n == Len(files)
    IN  IF st.i > n
        THEN IF \A j \in 1..n : st.dn[j]
             THEN IF st.k < Len(a)
                  THEN RefMerge(a, p, s,
                         [k |-> st.k + 1, c |-> st.c, i |-> 1,
                          pos |-> [j \in 1..Len(a[st.k + 1]) |-> 1],
                          la |-> [j \in 1..Len(a[st.k + 1]) |-> 0],
                          dn |-> [j \in 1..Len(a[st.k + 1]) |-> FALSE],
                          out |-> st.out])
                  ELSE [out |-> st.out, res |-> "nil"]
             ELSE RefMerge(a, p, s, [st EXCEPT !.c = @ + 1, !.i = 1])
        ELSE LET i == st.i
                 held == st.la[i] # 0
                 n0 == IF held THEN st.la[i] ELSE st.pos[i]
                 pos1 == IF held \/ n0 > Len(files[i]) THEN st.pos
                         ELSE [st.pos EXCEPT ![i] = @ + 1]
             IN  IF n0 > Len(files[i]) \/ files[i][n0].t = "empty"
                 THEN RefMerge(a, p, s, [st EXCEPT !.pos = pos1, !.dn[i] = TRUE, !.i = i + 1])
                 ELSE IF files[i][n0].t = "bad"
                 THEN [out |-> st.out, res |-> "err"]
                 ELSE IF files[i][n0].slot > st.c
                 THEN RefMerge(a, p, s, [st EXCEPT !.pos = pos1, !.la[i] = n0, !.i = i + 1])
                 ELSE RefMerge(a, p, s,
                        [st EXCEPT !.pos = pos1, !.la[i] = 0,
                                   !.out = @ \o RefEvents(p, s, Row(files[i][n0], st.k, i, n0))])

ReferenceReplay(a, p, s) ==
    LET start == getStartingSlot(a[1])
    IN  IF start.err THEN [out |-> <<>>, res |-> "err"]
        ELSE RefMerge(a, p, s,
               [k |-> 1, c |-> start.slot, i |-> 1,
                pos |-> [j \in 1..Len(a[1]) |-> 1],
                la |-> [j \in 1..Len(a[1]) |-> 0],
                dn |-> [j \in 1..Len(a[1]) |-> FALSE],
                out |-> <<>>])

\* C7: under every scheduling the emissions are a prefix of the reference output,
\* and all of it, with the same result, once RunSimulation has returned.
C7_Deterministic ==
    pcS # "idle" =>
        LET ref == ReferenceReplay(archive, pairsSubID, swapsSubID)
        IN  /\ IsPrefix(emitted, ref.out)
            /\ pcS = "returned" => (emitted = ref.out /\ simErr = ref.res)

C7_Witness ==
    /\ pcS = "returned"
    /\ simErr = "nil"
    /\ Len(emitted) >= 3
    /\ \E j, k \in 1..Len(emitted) : emitted[j].Params.at[2] # emitted[k].Params.at[2]

(***************************************************************************)
(* C8: a malformed line in any stream, an empty line in the middle of a    *)
(* log included, makes the replay fail: when RunSimulation has returned on *)
(* an archive with such a line, it has returned an error.                  *)
(***************************************************************************)
C8_MalformedLineFails ==
    (pcS = "returned" /\ HasMalformedLine(archive)) => simErr = "err"

(***************************************************************************)
(* C9: with no category subscribed nothing is ever pushed to the output    *)
(* feed, RunSimulation never waits for the feed, and on an archive of      *)
(* records it runs to completion: it returns nil with every line of every  *)
(* file of every segment consumed, whether or not the writer runs.         *)
(***************************************************************************)
NoSubscription == pairsSubID = 0 /\ swapsSubID = 0

C9_Completed ==
    /\ pcS = "returned"
    /\ simErr = "nil"
    /\ emitted = <<>>
    /\ \A d \in DOMAIN dec : Consumed(d) = Len(FileOf(d))

\* C9: nothing is pushed without a subscription and the replay completes.
C9_NoSubscription ==
    /\ [](NoSubscription => (emitted = <<>> /\ outputFeed = <<>> /\ pcS \notin {"sendPair", "sendSwap"}))
    /\ (pcH = "sim" /\ NoSubscription /\ AllRecords(archive)) ~> C9_Completed

C9_Witness ==
    /\ NoSubscription
    /\ AllRecords(archive)
    /\ Len(archive) = 2
    /\ C9_Completed

(***************************************************************************)
(* C10: the initial cursor is the minimum slot among the first records of  *)
(* the streams of the first segment, a first record of slot 0 included;    *)
(* a stream without records does not contribute.                           *)
(***************************************************************************)
C10_InitialCursorIsMin ==
    (Len(ticks) > 0 /\ FirstKeys(archive[1]) # {}) =>
        ticks[1] = MinOf(FirstKeys(archive[1]))

(***************************************************************************)
(* C11: after the starting slot is set, every change of the cursor is an   *)
(* increment by exactly one, made when the last stream of the tick has     *)
(* been processed and not every stream is done; a later segment starts     *)
(* with the cursor the segment before it ended with.                       *)
(***************************************************************************)
\* The step that sets the starting slot from the first data file.
SetsStartingSlot == pcS = "unzip" /\ seg = 1

\* The step that ends a tick and starts the next one of the same segment.
EndsTick ==
    /\ pcS = "drain" /\ pcS' = "drain"
    /\ ci = Len(dones) /\ ci' = 1
    /\ ticks' = Append(ticks, slot')
    /\ seg' = seg
    /\ ~AllDone(dones')

C11_CursorSteps ==
    [][/\ (slot' # slot /\ ~SetsStartingSlot) => (slot' = slot + 1 /\ EndsTick)
       /\ EndsTick => slot' = slot + 1
       /\ (pcS = "unzip" /\ seg > 1) => (slot' = slot /\ (pcS' = "drain" => ticks' = Append(ticks, slot)))
       /\ seg' # seg => slot' = slot]_vars

C11_Witness ==
    /\ seg = 2
    /\ pcS = "drain"
    /\ Len(ticks) >= 3
    /\ ticks[1] < slot
    /\ ticks[Len(ticks)] = ticks[Len(ticks) - 1]

(***************************************************************************)
(* C12: the rows of a stream that its decoder has delivered and the        *)
(* Synchronizer has not yet taken up for emission sit in the queue slot    *)
(* of the channel and in the lookahead slot buffers[i].                    *)
(***************************************************************************)
\* 1 when buffers[i] holds a row of file d, else 0.
Lookahead(d) ==
    IF d[1] = seg /\ pcS # "unzip" /\ d[2] \in DOMAIN buffers /\ ~IsEmpty(buffers[d[2]])
    THEN 1 ELSE 0

Ahead(d) == Len(dataChans[d].q) + Lookahead(d)

\* C12 as claimed: queue slot plus lookahead slot hold at most one row per stream.
C12_AtMostOneAhead ==
    \A d \in DOMAIN dec : Ahead(d) <= 1 /\ Len(dataChans[d].q) <= ChanCap

\* C12 as amended: the queue slot and the lookahead slot hold at most one row
\* each, at most two per stream, and a decoder delivers a row only into a
\* queue that is not full.
C12_AtMostTwoAhead ==
    /\ [](\A d \in DOMAIN dec :
             /\ Len(dataChans[d].q) <= ChanCap
             /\ Ahead(d) <= ChanCap + 1)
    /\ [][\A d \in DOMAIN dec :
             dec'[d].next > dec[d].next => Len(dataChans[d].q) < ChanCap]_vars

\* Both slots of a stream are taken and its decoder waits with a further row.
C12_Witness ==
    \E d \in DOMAIN dec :
        /\ Ahead(d) = ChanCap + 1
        /\ dec[d].pc = "stream"
        /\ dec[d].next <= Len(FileOf(d))
        /\ ~ENABLED DecSend(d)

(***************************************************************************)
(* C13: every subscribe request, whether or not its response is written,   *)
(* is given an id greater than every id given before, and the new-pair and *)
(* the swap subscription never hold the same non-zero id.                  *)
(***************************************************************************)
\* The greatest id given so far: ids are given in the order of nextSubID.
GreatestGiven == IF pairsSubID > swapsSubID THEN pairsSubID ELSE swapsSubID

C13_IdsNeverReused ==
    [][/\ pairsSubID' # pairsSubID => pairsSubID' > GreatestGiven
       /\ swapsSubID' # swapsSubID => swapsSubID' > GreatestGiven
       /\ (pairsSubID' # 0 /\ swapsSubID' # 0) => pairsSubID' # swapsSubID']_vars

(***************************************************************************)
(* C14: a record of a category is emitted once for every subscription to   *)
(* that category, tagged with its id, also when the client subscribed to   *)
(* the category more than once; without a matching subscription it is not *)
(* emitted and the replay does not fail.                                   *)
(***************************************************************************)
\* The ids given with a written response.  While swapsSubID is 0 no
\* swapSubscribe was handled and all of them are new-pair subscriptions;
\* while pairsSubID is 0 all of them are swap subscriptions.
IdsGiven == FirstSubID..(nextSubID - 1)

EmittedOnce(d, n, id, method) ==
    Cardinality({j \in 1..Len(emitted) :
                    /\ emitted[j].Params.at = <<d[1], d[2], n>>
                    /\ emitted[j].SubscriptionID = id
                    /\ emitted[j].Method = method}) = 1

C14_FanOut ==
    (pcS = "returned" /\ simErr = "nil" /\ AllRecords(archive)) =>
        /\ swapsSubID = 0 =>
              \A id \in IdsGiven : \A d \in DOMAIN dec : \A n \in 1..Len(FileOf(d)) :
                  FileOf(d)[n].pair => EmittedOnce(d, n, id, "newPairNotification")
        /\ pairsSubID = 0 =>
              \A id \in IdsGiven : \A d \in DOMAIN dec : \A n \in 1..Len(FileOf(d)) :
                  FileOf(d)[n].swap => EmittedOnce(d, n, id, "swapNotification")
        /\ NoSubscription => emitted = <<>>

(***************************************************************************)
(* C15: from the receipt of startSimulation until RunSimulation returns    *)
(* the subscription state pairsSubID, swapsSubID, nextSubID does not       *)
(* change, whatever is sent on this or on another connection.              *)
(***************************************************************************)
ReplayRunning == pcH = "sim" /\ pcS # "returned"

C15_NoSubscribeDuringReplay ==
    [][ReplayRunning => UNCHANGED <<pairsSubID, swapsSubID, nextSubID>>]_vars

(***************************************************************************)
(* C16: when a write to the client fails during a replay, the merge stops  *)
(* and RunSimulation returns; it does not stay blocked on the output feed. *)
(***************************************************************************)
C16_SinkDisconnectEnds == (pcH = "sim" /\ wsBroken) ~> (pcS = "returned")

(***************************************************************************)
(* C17: when a replay has ended through a decode failure, no decoder stays *)
(* blocked on its queue and no temporary file stays on disk: after the     *)
(* return every file still on disk has a running decoder that will delete  *)
(* it, and no decoder waits to send into a queue nobody receives from.     *)
(***************************************************************************)
\* The decoder of d waits in rows <- buf.
DecoderBlocked(d) ==
    dec[d].pc = "stream" /\ dec[d].next <= Len(FileOf(d)) /\ ~CanSend(dataChans[d])

C17_CleanupOnEveryExit ==
    (pcS = "returned" /\ simErr = "err") =>
        \A d \in DOMAIN dec :
            /\ ~DecoderBlocked(d)
            /\ d \in tmpFiles => dec[d].pc = "stream"

(***************************************************************************)
(* C18: when RunSimulation has returned nil every interim file it created  *)
(* is deleted and every decoder it started has ended; a file is deleted    *)
(* before the close of its channel can be seen.                            *)
(***************************************************************************)
C18_CleanOnNilReturn ==
    /\ \A d \in DOMAIN dec : dataChans[d].closed => d \notin tmpFiles
    /\ (pcS = "returned" /\ simErr = "nil") =>
          (tmpFiles = {} /\ \A d \in DOMAIN dec : dec[d].pc = "done")

(***************************************************************************)
(* C19: once RunSimulation has returned, with nil after the last data file *)
(* or with an error, the handler closes the connection; from the return on *)
(* it handles no further request, and a closed connection stays closed.    *)
(***************************************************************************)
C19_Disconnects ==
    /\ (pcS = "returned") ~> (pcH = "closed")
    /\ [][(pcS = "returned" \/ pcH = "closed") =>
             /\ pcH' \in {pcH, "closed"}
             /\ pcS' = pcS
             /\ UNCHANGED <<nextSubID, pairsSubID, swapsSubID>>]_vars

C19_Witness ==
    /\ pcH = "closed"
    /\ pcS = "returned"
    /\ simErr = "nil"
    /\ seg = Len(archive)
    /\ Len(emitted) >= 1

(***************************************************************************)
(* C20: every record is routed to one category: all emissions of one       *)
(* record, a record carrying both the pair and the swap field included,    *)
(* are made under one method.                                              *)
(***************************************************************************)
C20_OneCategoryPerRecord ==
    \A j, k \in 1..Len(emitted) :
        emitted[j].Params.at = emitted[k].Params.at => emitted[j].Method = emitted[k].Method

(***************************************************************************)
(* C21: the subscriptions of a connection end with it: a client served     *)
(* after an earlier connection has ended receives no emission unless it    *)
(* has subscribed itself, and the first id it is given is the first id.    *)
(***************************************************************************)
\* The later client has sent no subscribe request: no response was written
\* to its websocket and no write to it has failed.
NeverSubscribed == ~wsBroken /\ \A j \in 1..Len(written) : written[j].Method # "result"

C21_SubscriptionsEndWithConnection ==
    pcOther = "closed" =>
        /\ NeverSubscribed => emitted = <<>>
        /\ (Len(written) > 0 /\ written[1].Method = "result") =>
              written[1].SubscriptionID = FirstSubID

(***************************************************************************)
(* C22: within the merge of a segment a done flag that is set stays set,   *)
(* and buffers and dones are written by the steps of RunSimulation only.   *)
(***************************************************************************)
InMerge == pcS \in {"drain", "sendPair", "sendSwap"}

C22_DoneIsLatch ==
    [][/\ InMerge =>
             /\ DOMAIN dones' = DOMAIN dones
             /\ \A i \in DOMAIN dones : dones[i] => dones'[i]
       /\ (dones' # dones \/ buffers' # buffers) =>
             /\ pcS \in {"unzip", "drain"}
             /\ pcS = "drain" => dec' = dec
             /\ UNCHANGED <<writer, pcH, pcOther, outputFeed>>]_vars

\* A later tick of a merge in which one stream is done and another is not.
C22_Witness ==
    /\ pcS = "drain"
    /\ Len(ticks) >= 2
    /\ ticks[Len(ticks)] > ticks[1]
    /\ \E i, j \in DOMAIN dones : dones[i] /\ ~dones[j]


(***************************************************************************)
(* The command started with flags: Execute validates them before the       *)
(* server listens.                                                         *)
(***************************************************************************)
\* from-date given or not, from-slot from 0 (not set) upwards
ParamInputs == [fromDate : {"", "2024-01-01"}, fromSlot : 0..MaxSlot]

\* One data file whose records start at slot 0, one whose records start at slot 1.
ParamArchives == {<<<<<<P(0), P(1)>>, <<S(0)>>>>>>, <<<<<<P(1)>>, <<S(1)>>>>>>}

ParamInit ==
    /\ archive \in ParamArchives
    /\ DlIdle
    /\ RdIdle
    /\ tmpFiles = {}
    /\ nextSubID = FirstSubID
    /\ pairsSubID = 0
    /\ swapsSubID = 0
    /\ outputFeed = <<>>
    /\ pcH = "init"
    /\ pcOther = "off"
    /\ writerB = [pc |-> "none", v |-> NoEvent]
    /\ params \in ParamInputs
    /\ wsBroken = FALSE
    /\ written = <<>>
    /\ writer = [pc |-> "none", v |-> NoEvent]
    /\ pcS = "idle"
    /\ simErr = "none"
    /\ seg = 0
    /\ slot = 0
    /\ ci = 0
    /\ buffers = <<>>
    /\ dones = <<>>
    /\ ev = NoEvent
    /\ dec = [d \in FileIds(archive) |-> [pc |-> "off", next |-> 1]]
    /\ dataChans = [d \in FileIds(archive) |-> [q |-> <<>>, closed |-> FALSE]]
    /\ emitted = <<>>
    /\ ticks = <<>>

\* if err := o.validateParams(); err != nil { return err }; then the server listens
ValidateParams ==
    /\ pcH = "init"
    /\ pcH' = IF validateParams(params) = "err" THEN "rejected" ELSE "read"
    /\ UNCHANGED <<rdVars, dlVars, archive, params, pcOther, writerB, nextSubID, pairsSubID, swapsSubID, outputFeed,
                   wsBroken, written, writer>>
    /\ UNCHANGED simVars

ParamNext ==
    \/ ValidateParams
    \/ Next

ParamSpec == ParamInit /\ [][ParamNext]_vars

\* C23: with from-slot (and from-date) set, the replay starts at from-slot: the
\* first cursor value is from-slot and no record below from-slot is emitted;
\* from-slot without from-date is rejected before the server listens.
C23_StartsFromSlot ==
    /\ (params.fromSlot # 0 /\ params.fromDate = "") => pcH \in {"init", "rejected"}
    /\ (params.fromSlot # 0 /\ params.fromDate # "") =>
          /\ Len(ticks) > 0 => ticks[1] = params.fromSlot
          /\ \A j \in 1..Len(emitted) : emitted[j].Params.line.slot >= params.fromSlot

\* The half of C23 that the code implements: from-slot without from-date is rejected.
C23_RejectsSlotWithoutDate ==
    (params.fromSlot # 0 /\ params.fromDate = "") => pcH \in {"init", "rejected"}


(***************************************************************************)
(* C25: exactly-once emission.  When RunSimulation has returned nil, every *)
(* record of a subscribed category, in every log of every data file, has   *)
(* been pushed to the output feed exactly once under that category; and    *)
(* the emissions of one log are always in the order of the log.            *)
(***************************************************************************)
EmissionsOf(at, method) ==
    {j \in 1..Len(emitted) : emitted[j].Params.at = at /\ emitted[j].Method = method}

C25_ExactlyOnce ==
    /\ \A j1, j2 \in 1..Len(emitted) :
          (/\ j1 < j2
           /\ emitted[j1].Params.at[1] = emitted[j2].Params.at[1]
           /\ emitted[j1].Params.at[2] = emitted[j2].Params.at[2])
             => emitted[j1].Params.at[3] <= emitted[j2].Params.at[3]
    /\ (pcS = "returned" /\ simErr = "nil") =>
          \A d \in FileIds(archive) : \A n \in 1..Len(FileOf(d)) :
              LET line == FileOf(d)[n]
                  at == <<d[1], d[2], n>>
              IN  line.t = "rec" =>
                    /\ (pairsSubID # 0 /\ line.pair) =>
                          Cardinality(EmissionsOf(at, "newPairNotification")) = 1
                    /\ (swapsSubID # 0 /\ line.swap) =>
                          Cardinality(EmissionsOf(at, "swapNotification")) = 1


\* No log of the archive holds an empty line.
NoEmptyLine ==
    \A d \in FileIds(archive) : \A n \in 1..Len(FileOf(d)) : FileOf(d)[n].t # "empty"

\* C25 on archives without empty lines: there the emission is exactly-once.
C25_ExactlyOnceWithoutEmptyLines == NoEmptyLine => C25_ExactlyOnce


(***************************************************************************)
(* C26: when the handler closes the connection after RunSimulation has     *)
(* returned, the output feed is empty, the writer holds no envelope it has *)
(* not written, and every emission of the replay is among the messages     *)
(* written to the websocket.                                               *)
(***************************************************************************)
Notifications(w) == SelectSeq(w, LAMBDA m : m.Method # "result")

C26_WrittenBeforeClose ==
    [][(pcH = "sim" /\ pcH' = "closed") =>
          /\ outputFeed = <<>>
          /\ writer.pc # "write"
          /\ Notifications(written) = emitted]_vars


(***************************************************************************)
(* Two replay sessions, one after the other.  The second client sends      *)
(* startSimulation on its own connection once the first connection is      *)
(* closed, the decoders of the first replay have ended and nothing of the  *)
(* first replay is left in the output feed.  Its handler starts a writer   *)
(* goroutine of its own on the same o.outputFeed and calls RunSimulation   *)
(* on the same SimulateTask.                                               *)
(***************************************************************************)
\* One data file with a single log of records that are both a pair and a swap.
SessionArchives == {<<<<<<PS(0)>>>>>>}

SessionsInit ==
    /\ archive \in SessionArchives
    /\ DlIdle
    /\ RdIdle
    /\ tmpFiles = {}
    /\ nextSubID = FirstSubID
    /\ pairsSubID = 0
    /\ swapsSubID = 0
    /\ outputFeed = <<>>
    /\ pcH = "read"
    /\ pcOther = "read"
    /\ writerB = [pc |-> "none", v |-> NoEvent]
    /\ params = DefaultParams
    /\ wsBroken = FALSE
    /\ written = <<>>
    /\ writer = [pc |-> "none", v |-> NoEvent]
    /\ pcS = "idle"
    /\ simErr = "none"
    /\ seg = 0
    /\ slot = 0
    /\ ci = 0
    /\ buffers = <<>>
    /\ dones = <<>>
    /\ ev = NoEvent
    /\ dec = [d \in FileIds(archive) |-> [pc |-> "off", next |-> 1]]
    /\ dataChans = [d \in FileIds(archive) |-> [q |-> <<>>, closed |-> FALSE]]
    /\ emitted = <<>>
    /\ ticks = <<>>

\* case MethodStartSimulation, on the second connection
OtherStartSimulation ==
    /\ pcOther = "read"
    /\ pcH = "closed"
    /\ pcS \in {"idle", "returned"}
    /\ \A d \in DOMAIN dec : dec[d].pc \in {"off", "done"}
    /\ tmpFiles = {}
    /\ outputFeed = <<>>
    /\ writer.pc # "write"
    /\ pcOther' = "sim"
    /\ writerB' = [pc |-> "recv", v |-> NoEvent]
    /\ pcS' = "unzip"
    /\ seg' = 1
    /\ simErr' = "none"
    /\ slot' = 0
    /\ ci' = 0
    /\ buffers' = <<>>
    /\ dones' = <<>>
    /\ ev' = NoEvent
    /\ dec' = [d \in DOMAIN dec |-> [pc |-> "off", next |-> 1]]
    /\ dataChans' = [d \in DOMAIN dataChans |-> [q |-> <<>>, closed |-> FALSE]]
    /\ emitted' = <<>>
    /\ ticks' = <<>>
    /\ UNCHANGED <<rdVars, dlVars, archive, params, tmpFiles, nextSubID, pairsSubID, swapsSubID, outputFeed, pcH,
                   wsBroken, written, writer>>

\* The second connection's RunSimulation has returned: return, then c.Close()
OtherCloseConnection ==
    /\ pcOther = "sim"
    /\ pcS = "returned"
    /\ pcOther' = "closed"
    /\ UNCHANGED <<rdVars, dlVars, archive, params, writerB, nextSubID, pairsSubID, swapsSubID, outputFeed, pcH,
                   wsBroken, written, writer>>
    /\ UNCHANGED simVars

\* v, open := <-o.outputFeed in the second connection's writer goroutine
OtherWriterRecv ==
    /\ writerB.pc = "recv"
    /\ Len(outputFeed) > 0
    /\ writerB' = [pc |-> "write", v |-> Head(outputFeed)]
    /\ outputFeed' = Tail(outputFeed)
    /\ UNCHANGED <<rdVars, dlVars, archive, params, pcOther, writer, nextSubID, pairsSubID, swapsSubID, pcH,
                   wsBroken, written>>
    /\ UNCHANGED simVars

\* c.WriteMessage on the second connection: on an error the goroutine ends
OtherWriterWrite(ok) ==
    /\ writerB.pc = "write"
    /\ ok => pcOther # "closed"
    /\ writerB' = [pc |-> IF ok THEN "recv" ELSE "exit", v |-> NoEvent]
    /\ UNCHANGED <<rdVars, dlVars, archive, params, pcOther, writer, nextSubID, pairsSubID, swapsSubID, outputFeed,
                   pcH, wsBroken, written>>
    /\ UNCHANGED simVars

SessionsNext ==
    \/ Next
    \/ pcH = "closed" /\ OtherPairSubscribe(TRUE)
    \/ pcH = "closed" /\ OtherSwapSubscribe(TRUE)
    \/ pcH = "closed" /\ OtherPairSubscribe(FALSE)
    \/ pcH = "closed" /\ OtherSwapSubscribe(FALSE)
    \/ pcH = "closed" /\ OtherReadError
    \/ OtherStartSimulation
    \/ OtherCloseConnection
    \/ OtherWriterRecv
    \/ OtherWriterWrite(TRUE)
    \/ OtherWriterWrite(FALSE)

SessionsSpec == SessionsInit /\ [][SessionsNext]_vars

\* C27: replay sessions are isolated: once the second connection has started
\* its replay, the writer goroutine of the first connection takes no envelope
\* from the output feed, and every envelope is taken by the writer of the
\* connection whose replay is running.
C27_SessionsIsolated ==
    [][/\ (writer.pc = "recv" /\ writer'.pc = "write") => writerB.pc = "none"
       /\ (writerB.pc = "recv" /\ writerB'.pc = "write") => pcOther \in {"sim", "closed"}]_vars


(***************************************************************************)
(* The download command (DownloadTask).  The simulate server is not part   *)
(* of its runs: its variables keep the values of SimIdle.                  *)
(***************************************************************************)
SimIdle ==
    /\ archive = <<>>
    /\ tmpFiles = {}
    /\ nextSubID = FirstSubID
    /\ pairsSubID = 0
    /\ swapsSubID = 0
    /\ outputFeed = <<>>
    /\ pcH = "off"
    /\ pcOther = "off"
    /\ writerB = [pc |-> "none", v |-> NoEvent]
    /\ params = DefaultParams
    /\ wsBroken = FALSE
    /\ written = <<>>
    /\ writer = [pc |-> "none", v |-> NoEvent]
    /\ pcS = "idle"
    /\ simErr = "none"
    /\ seg = 0
    /\ slot = 0
    /\ ci = 0
    /\ buffers = <<>>
    /\ dones = <<>>
    /\ ev = NoEvent
    /\ dec = <<>>
    /\ dataChans = <<>>
    /\ emitted = <<>>
    /\ ticks = <<>>

serverVars == <<archive, nextSubID, pairsSubID, swapsSubID, outputFeed, pcH, pcOther,
                writerB, params, wsBroken, written, writer, simVars>>

\* The files of the order: generateListOfArchiveFiles(o.order.ArchiveDataFrom, o.order.ArchiveDataTo)
Files == 1..MaxFiles

\* validateParams of the download command: the error it returns and the params it leaves
dlValidateParams(p) ==
    IF p.apiKey = ""
    THEN [err |-> "missing API key", params |-> p]
    ELSE IF p.orderID = 0 /\ p.fileName = ""
    THEN [err |-> "missing order ID or file name", params |-> p]
    ELSE LET p1 == IF p.outputDir = "" THEN [p EXCEPT !.outputDir = "."] ELSE p
             p2 == IF p1.concurrency = 0 THEN [p1 EXCEPT !.concurrency = 1] ELSE p1
         IN  IF p2.concurrency > ConcurrencyLimit
             THEN [err |-> "concurrency limit is 10", params |-> p2]
             ELSE [err |-> "nil", params |-> p2]

\* The state of one run's memory before Execute: nothing started, no error.
FreshRun ==
    /\ manifest = [f \in Files |-> "absent"]
    /\ todo = <<>>
    /\ idx = 0
    /\ sem = 0
    /\ err = "nil"
    /\ cmdErr = "nil"
    /\ routine = [f \in Files |-> [pc |-> "none", failed |-> FALSE, wfail |-> FALSE,
                                   snap |-> [h \in Files |-> "absent"]]]
    /\ outcome = [f \in Files |-> "none"]

\* if err := o.validateParams(); err != nil { return err }
DlValidate ==
    /\ dlPc = "init"
    /\ LET v == dlValidateParams(dlParams)
       IN  /\ dlParams' = v.params
           /\ IF v.err # "nil"
              THEN dlPc' = "returned" /\ dlRet' = "err"
              ELSE dlPc' = "load" /\ dlRet' = "none"
    /\ UNCHANGED <<variant, zips, diskManifest, manifest, todo, idx, sem, err, cmdErr,
                   routine, outcome, run>>
    /\ UNCHANGED <<serverVars, rdVars>>

\* Every combination of flags, validated and nothing more.
ValidateInputs ==
    [apiKey : {"", "key"}, orderID : 0..1, fileName : {"", "file"}, outputDir : {"", "out"},
     concurrency : 0..MaxConcurrencyIn]

ValidateInit ==
    /\ SimIdle
    /\ RdIdle
    /\ variant \in {"dir", "manifest"}
    /\ dlParams \in ValidateInputs
    /\ dlPc = "init"
    /\ dlRet = "none"
    /\ zips = [f \in Files |-> FALSE]
    /\ diskManifest = [f \in Files |-> "absent"]
    /\ FreshRun
    /\ run = 1

ValidateNext == DlValidate

ValidateSpec == ValidateInit /\ [][ValidateNext]_vars

\* C24: validateParams returns an error for every concurrency above the
\* documented maximum, and replaces a concurrency of 0 by 1.
C24_ConcurrencyAtMostDocumented ==
    [][dlPc = "init" =>
          /\ dlParams.concurrency > DocumentedMax => dlRet' = "err"
          /\ (dlParams.concurrency = 0 /\ dlRet' # "err") => dlParams'.concurrency = 1]_vars

\* What validateParams does: an error above the limit in the code, 0 replaced by 1.
C24_ConcurrencyAtMostLimit ==
    [][dlPc = "init" =>
          /\ dlParams.concurrency > ConcurrencyLimit => dlRet' = "err"
          /\ (dlParams.concurrency = 0 /\ dlRet' # "err") => dlParams'.concurrency = 1
          /\ (dlParams.concurrency \in 1..ConcurrencyLimit /\ dlParams.apiKey # ""
                /\ (dlParams.orderID # 0 \/ dlParams.fileName # "")) => dlRet' # "err"]_vars


(***************************************************************************)
(* DownloadTask.Execute after validateParams, in its two variants: "dir"   *)
(* takes the .zip files of the output directory for the files already      *)
(* downloaded, "manifest" keeps a manifest file.  getOrder and getMetadata *)
(* succeed; the context is never cancelled, so Acquire always acquires.    *)
(* Every goroutine downloads the file of the iteration that started it.    *)
(***************************************************************************)
\* The flags of a run that passes validateParams, but for the concurrency.
DownloadInputs ==
    [apiKey : {"key"}, orderID : {1}, fileName : {""}, outputDir : {"out"},
     concurrency : 0..MaxConcurrency]

DownloadInit ==
    /\ SimIdle
    /\ RdIdle
    /\ dlParams \in DownloadInputs
    /\ dlPc = "init"
    /\ dlRet = "none"
    /\ zips = [f \in Files |-> FALSE]
    /\ diskManifest = [f \in Files |-> "absent"]
    /\ FreshRun
    /\ run = 1

\* The files of the order in their order, as a sequence.
FileList == [i \in 1..MaxFiles |-> i]

\* "dir": getCurrentFiles, then filesToDownload: the files without a .zip; none: return nil.
\* "manifest": getManifest decodes the manifest file; the loop ranges over all files.
DlLoad ==
    /\ dlPc = "load"
    /\ IF variant = "dir"
       THEN LET filesToDownload == SelectSeq(FileList, LAMBDA f : ~zips[f])
            IN  /\ todo' = filesToDownload
                /\ IF Len(filesToDownload) = 0
                   THEN dlPc' = "returned" /\ dlRet' = "nil" /\ idx' = 0
                   ELSE dlPc' = "loop" /\ dlRet' = "none" /\ idx' = 1
                /\ UNCHANGED manifest
       ELSE /\ manifest' = diskManifest
            /\ todo' = FileList
            /\ dlPc' = "loop"
            /\ idx' = 1
            /\ UNCHANGED dlRet
    /\ UNCHANGED <<variant, dlParams, zips, diskManifest, sem, err, cmdErr, routine,
                   outcome, run>>
    /\ UNCHANGED <<serverVars, rdVars>>

\* A semaphore that never blocks.
CanAcquireAlways(held, n, size) == TRUE

\* semaphore.Weighted.Acquire(ctx, n) returns once n more fit into the size
CanAcquire(held, n, size) == held + n <= size

\* if status, ok := o.manifest.Files[file]; ok && status.Downloaded { continue }
DlSkip ==
    /\ dlPc = "loop"
    /\ idx <= Len(todo)
    /\ variant = "manifest"
    /\ manifest[todo[idx]] = "downloaded"
    /\ idx' = idx + 1
    /\ UNCHANGED <<variant, dlParams, dlPc, dlRet, zips, diskManifest, manifest, todo,
                   sem, err, cmdErr, routine, outcome, run>>
    /\ UNCHANGED <<serverVars, rdVars>>

\* concurrency.Acquire(ctx, 1); go func() { ... }()
DlSpawn ==
    /\ dlPc = "loop"
    /\ idx <= Len(todo)
    /\ variant = "manifest" => manifest[todo[idx]] # "downloaded"
    /\ CanAcquire(sem, 1, dlParams.concurrency)
    /\ sem' = sem + 1
    /\ routine' = [routine EXCEPT ![todo[idx]].pc = "download"]
    /\ idx' = idx + 1
    /\ UNCHANGED <<variant, dlParams, dlPc, dlRet, zips, diskManifest, manifest, todo,
                   err, cmdErr, outcome, run>>
    /\ UNCHANGED <<serverVars, rdVars>>

\* after the loop: concurrency.Acquire(ctx, int64(o.params.concurrency))
DlWait ==
    /\ dlPc = "loop"
    /\ idx > Len(todo)
    /\ CanAcquire(sem, dlParams.concurrency, dlParams.concurrency)
    /\ sem' = sem + dlParams.concurrency
    /\ dlPc' = "report"
    /\ UNCHANGED <<variant, dlParams, dlRet, zips, diskManifest, manifest, todo, idx,
                   err, cmdErr, routine, outcome, run>>
    /\ UNCHANGED <<serverVars, rdVars>>

\* finishReporting <- struct{}{}; if cmdErr != nil { return cmdErr }; return nil
DlFinish ==
    /\ dlPc = "report"
    /\ dlPc' = "returned"
    /\ dlRet' = IF cmdErr # "nil" THEN "err" ELSE "nil"
    /\ UNCHANGED <<variant, dlParams, zips, diskManifest, manifest, todo, idx, sem,
                   err, cmdErr, routine, outcome, run>>
    /\ UNCHANGED <<serverVars, rdVars>>

\* The command is run again on the same output directory with the same flags.
DlRerun ==
    /\ dlPc \in {"returned", "crashed"}
    /\ run < MaxRuns
    /\ run' = run + 1
    /\ dlPc' = "init"
    /\ dlRet' = "none"
    /\ manifest' = [f \in Files |-> "absent"]
    /\ todo' = <<>>
    /\ idx' = 0
    /\ sem' = 0
    /\ err' = "nil"
    /\ cmdErr' = "nil"
    /\ routine' = [f \in Files |-> [pc |-> "none", failed |-> FALSE, wfail |-> FALSE,
                                    snap |-> [h \in Files |-> "absent"]]]
    /\ outcome' = [f \in Files |-> "none"]
    /\ UNCHANGED <<variant, dlParams, zips, diskManifest>>
    /\ UNCHANGED <<serverVars, rdVars>>

(***************************************************************************)
(* The goroutine started for file f.                                       *)
(***************************************************************************)
\* err = o.downloadFile(ctx, file, ...): the assignment is to the err of Execute
RoutineDownload(f, ok) ==
    /\ dlPc = "loop"
    /\ routine[f].pc = "download"
    /\ err' = IF ok THEN "nil" ELSE "download failed"
    /\ zips' = IF ok THEN [zips EXCEPT ![f] = TRUE] ELSE zips
    /\ outcome' = [outcome EXCEPT ![f] = IF ok THEN "ok" ELSE "failed"]
    /\ routine' = [routine EXCEPT ![f].pc = "check"]
    /\ UNCHANGED <<variant, dlParams, dlPc, dlRet, diskManifest, manifest, todo, idx,
                   sem, cmdErr, run>>
    /\ UNCHANGED <<serverVars, rdVars>>

\* if err != nil { ... }: the branch is taken on the err of Execute as it is now
RoutineCheck(f) ==
    /\ dlPc = "loop"
    /\ routine[f].pc = "check"
    /\ routine' = [routine EXCEPT ![f].failed = (err # "nil"),
                                  ![f].pc = IF variant = "manifest" THEN "mark"
                                            ELSE IF err # "nil" THEN "setCmdErr"
                                            ELSE "release"]
    /\ UNCHANGED <<variant, dlParams, dlPc, dlRet, zips, diskManifest, manifest, todo,
                   idx, sem, err, cmdErr, outcome, run>>
    /\ UNCHANGED <<serverVars, rdVars>>

\* cmdErr = err
RoutineSetCmdErr(f) ==
    /\ dlPc = "loop"
    /\ routine[f].pc = "setCmdErr"
    /\ cmdErr' = err
    /\ routine' = [routine EXCEPT ![f].pc = "release"]
    /\ UNCHANGED <<variant, dlParams, dlPc, dlRet, zips, diskManifest, manifest, todo,
                   idx, sem, err, outcome, run>>
    /\ UNCHANGED <<serverVars, rdVars>>

\* defer concurrency.Release(1)
RoutineRelease(f) ==
    /\ dlPc = "loop"
    /\ routine[f].pc = "release"
    /\ sem' = sem - 1
    /\ routine' = [routine EXCEPT ![f].pc = "done"]
    /\ UNCHANGED <<variant, dlParams, dlPc, dlRet, zips, diskManifest, manifest, todo,
                   idx, err, cmdErr, outcome, run>>
    /\ UNCHANGED <<serverVars, rdVars>>

DirInit == variant = "dir" /\ DownloadInit

DirNext ==
    \/ DlValidate
    \/ DlLoad
    \/ DlSpawn
    \/ DlWait
    \/ DlFinish
    \/ DlRerun
    \/ \E f \in Files : RoutineDownload(f, TRUE)
    \/ \E f \in Files : RoutineDownload(f, FALSE)
    \/ \E f \in Files : RoutineCheck(f)
    \/ \E f \in Files : RoutineSetCmdErr(f)
    \/ \E f \in Files : RoutineRelease(f)

DirSpec == DirInit /\ [][DirNext]_vars


\* The goroutines that hold a slot of the semaphore.
InFlight == {f \in Files : routine[f].pc \notin {"none", "done"}}

(***************************************************************************)
(* C28: if the download of a file has failed, Execute returns a non-nil    *)
(* error, and it returns nil only when every file it started downloaded    *)
(* successfully; it returns after all downloads have finished.             *)
(***************************************************************************)
C28_ErrorPropagates ==
    (dlPc = "returned" /\ idx > 0) =>
        /\ InFlight = {}
        /\ (\E f \in Files : outcome[f] = "failed") => dlRet = "err"
        /\ dlRet = "nil" => \A i \in 1..Len(todo) : outcome[todo[i]] = "ok"

(***************************************************************************)
(* C29: at every moment at most `concurrency` downloads are in flight, and *)
(* Execute stops the reporter and returns only when every goroutine it     *)
(* started has released its slot of the semaphore.                         *)
(***************************************************************************)
C29_ConcurrencyBound ==
    /\ dlPc = "loop" => Cardinality(InFlight) <= dlParams.concurrency
    /\ dlPc = "loop" => sem = Cardinality(InFlight)
    /\ (dlPc \in {"report", "returned"} /\ idx > 0) =>
          /\ InFlight = {}
          /\ variant = "dir" => \A i \in 1..Len(todo) : routine[todo[i]].pc = "done"

\* A download is in flight with the semaphore full and the next file waiting for a slot.
C29_Witness ==
    /\ dlPc = "loop"
    /\ Cardinality(InFlight) = dlParams.concurrency
    /\ idx <= Len(todo)
    /\ \E f \in Files : routine[f].pc = "download"


(***************************************************************************)
(* The manifest variant: the goroutine records the file in o.manifest and  *)
(* rewrites the manifest file.                                             *)
(***************************************************************************)
\* o.manifest.Files[file] = FileStatus{...} under the lock; the failed branch
\* calls err.Error() on the err of Execute as it is now: on nil it panics
RoutineMark(f) ==
    /\ dlPc = "loop"
    /\ routine[f].pc = "mark"
    /\ IF routine[f].failed /\ err = "nil"
       THEN /\ dlPc' = "crashed"
            /\ UNCHANGED <<manifest, routine>>
       ELSE /\ manifest' = [manifest EXCEPT ![f] = IF routine[f].failed THEN "failed"
                                                   ELSE "downloaded"]
            /\ routine' = [routine EXCEPT ![f].pc = "encode"]
            /\ UNCHANGED dlPc
    /\ UNCHANGED <<variant, dlParams, dlRet, zips, diskManifest, todo, idx, sem, err,
                   cmdErr, outcome, run>>
    /\ UNCHANGED <<serverVars, rdVars>>

\* updateManifest: the file is opened and Encode starts to read o.manifest, without the lock
RoutineEncode(f) ==
    /\ dlPc = "loop"
    /\ routine[f].pc = "encode"
    /\ routine' = [routine EXCEPT ![f].pc = "encoding"]
    /\ UNCHANGED <<variant, dlParams, dlPc, dlRet, zips, diskManifest, manifest, todo,
                   idx, sem, err, cmdErr, outcome, run>>
    /\ UNCHANGED <<serverVars, rdVars>>

\* Encode has read o.manifest: the bytes it will write are those of the map as it is now
RoutineEncoded(f) ==
    /\ dlPc = "loop"
    /\ routine[f].pc = "encoding"
    /\ routine' = [routine EXCEPT ![f].snap = manifest, ![f].pc = "write"]
    /\ UNCHANGED <<variant, dlParams, dlPc, dlRet, zips, diskManifest, manifest, todo,
                   idx, sem, err, cmdErr, outcome, run>>
    /\ UNCHANGED <<serverVars, rdVars>>

\* Another goroutine is about to write the map while Encode iterates over it:
\* the Go runtime may end the process (concurrent map iteration and map write).
DlMapRace ==
    /\ dlPc = "loop"
    /\ \E f1, f2 \in Files : /\ routine[f1].pc = "encoding"
                             /\ routine[f2].pc = "mark"
    /\ dlPc' = "crashed"
    /\ UNCHANGED <<variant, dlParams, dlRet, zips, diskManifest, manifest, todo, idx,
                   sem, err, cmdErr, routine, outcome, run>>
    /\ UNCHANGED <<serverVars, rdVars>>

\* err = o.updateManifest(ctx): the encoded bytes are written from the start of
\* the file, or the open or the write fails; the assignment is to the err of Execute
RoutineWrite(f, ok) ==
    /\ dlPc = "loop"
    /\ routine[f].pc = "write"
    /\ diskManifest' = IF ok THEN routine[f].snap ELSE diskManifest
    /\ err' = IF ok THEN "nil" ELSE "manifest failed"
    /\ routine' = [routine EXCEPT ![f].wfail = ~ok,
                                  ![f].pc = IF routine[f].failed THEN "setCmdErr"
                                            ELSE "release"]
    /\ UNCHANGED <<variant, dlParams, dlPc, dlRet, zips, manifest, todo, idx, sem,
                   cmdErr, outcome, run>>
    /\ UNCHANGED <<serverVars, rdVars>>

ManifestInit == variant = "manifest" /\ DownloadInit

ManifestNext ==
    \/ DlValidate
    \/ DlLoad
    \/ DlSkip
    \/ DlSpawn
    \/ DlWait
    \/ DlFinish
    \/ DlRerun
    \/ DlMapRace
    \/ \E f \in Files : RoutineDownload(f, TRUE)
    \/ \E f \in Files : RoutineDownload(f, FALSE)
    \/ \E f \in Files : RoutineCheck(f)
    \/ \E f \in Files : RoutineMark(f)
    \/ \E f \in Files : RoutineEncode(f)
    \/ \E f \in Files : RoutineEncoded(f)
    \/ \E f \in Files : RoutineWrite(f, TRUE)
    \/ \E f \in Files : RoutineWrite(f, FALSE)
    \/ \E f \in Files : RoutineSetCmdErr(f)
    \/ \E f \in Files : RoutineRelease(f)

ManifestSpec == ManifestInit /\ [][ManifestNext]_vars

\* C28 in the manifest variant, checked under ManifestSpec.
C28_ErrorPropagatesManifest ==
    (variant = "manifest" /\ dlPc = "returned" /\ idx > 0) =>
        /\ (\E f \in Files : outcome[f] = "failed") => dlRet = "err"
        /\ dlRet = "nil" => \A f \in Files : outcome[f] \in {"none", "ok"}

(***************************************************************************)
(* C30: a file already downloaded (its .zip in the output directory, or    *)
(* Downloaded in the manifest file) is never downloaded again; when a run  *)
(* has ended, a file whose download failed in it is not recorded as        *)
(* downloaded, and a file that downloaded successfully is recorded as      *)
(* Downloaded in the manifest file (unless a write of the manifest failed).*)
(***************************************************************************)
Recorded(f) == IF variant = "dir" THEN zips[f] ELSE diskManifest[f] = "downloaded"

C30_Resume ==
    [][/\ \A f \in Files :
             (routine[f].pc = "none" /\ routine'[f].pc = "download") => ~Recorded(f)
       /\ (dlPc' = "returned" /\ idx' > 0) =>
             \A f \in Files :
                /\ outcome'[f] = "failed" => ~Recorded(f)'
                /\ (/\ variant = "manifest"
                    /\ outcome'[f] = "ok"
                    /\ \A h \in Files : ~routine'[h].wfail) => Recorded(f)']_vars


(***************************************************************************)
(* The reduce command (ReduceTask.Execute).  processParams parses the      *)
(* configured keys, getDataFiles lists the archive files of the input      *)
(* directory (ok says whether os.ReadDir succeeds), and one goroutine per  *)
(* file calls processFile.  The context is context.Background(): Acquire   *)
(* returns no error.  The concurrency flag is not validated.               *)
(***************************************************************************)
ReduceInit ==
    /\ SimIdle
    /\ DlIdle
    /\ rdPc = "init"
    /\ rdRet = "none"
    /\ rdConcurrency \in 0..MaxConcurrency
    /\ inFiles \in {SubSeq(FileList, 1, n) : n \in 0..MaxFiles}
    /\ rdIdx = 0
    /\ rdSem = 0
    /\ errs = <<>>
    /\ worker = [f \in Files |-> [pc |-> "none", res |-> "none", seen |-> <<>>]]
    /\ amms = {}
    /\ baseTokenMints = {}
    /\ wallets = {}
    /\ inRows = <<>>
    /\ outRows = <<>>
    /\ scanned = 0

filterVars == <<amms, baseTokenMints, wallets, inRows, outRows, scanned>>

\* processParams, getDataFiles, makeFilterFunc: an error of getDataFiles is returned
RdStart(ok) ==
    /\ rdPc = "init"
    /\ IF ok
       THEN rdPc' = "loop" /\ rdIdx' = 1 /\ rdRet' = "none"
       ELSE rdPc' = "returned" /\ rdIdx' = 0 /\ rdRet' = "err"
    /\ UNCHANGED <<rdConcurrency, inFiles, rdSem, errs, worker, filterVars>>
    /\ UNCHANGED <<serverVars, dlVars>>

\* err := sem.Acquire(ctx, 1); go func(fileName string) { ... }(v)
RdSpawn ==
    /\ rdPc = "loop"
    /\ rdIdx <= Len(inFiles)
    /\ CanAcquire(rdSem, 1, rdConcurrency)
    /\ rdSem' = rdSem + 1
    /\ worker' = [worker EXCEPT ![inFiles[rdIdx]].pc = "process"]
    /\ rdIdx' = rdIdx + 1
    /\ UNCHANGED <<rdPc, rdRet, rdConcurrency, inFiles, errs, filterVars>>
    /\ UNCHANGED <<serverVars, dlVars>>

\* err := o.processFile(fileName, filterFunc); if err != nil { ... }
WorkerProcess(f, ok) ==
    /\ rdPc = "loop"
    /\ worker[f].pc = "process"
    /\ worker' = [worker EXCEPT ![f].res = IF ok THEN "nil" ELSE "err",
                                ![f].pc = IF ok THEN "release" ELSE "append"]
    /\ UNCHANGED <<rdPc, rdRet, rdConcurrency, inFiles, rdIdx, rdSem, errs, filterVars>>
    /\ UNCHANGED <<serverVars, dlVars>>

\* errs = append(errs, err): the slice errs is read ...
WorkerAppendRead(f) ==
    /\ rdPc = "loop"
    /\ worker[f].pc = "append"
    /\ worker' = [worker EXCEPT ![f].seen = errs, ![f].pc = "store"]
    /\ UNCHANGED <<rdPc, rdRet, rdConcurrency, inFiles, rdIdx, rdSem, errs, filterVars>>
    /\ UNCHANGED <<serverVars, dlVars>>

\* ... and the slice with the error appended to what was read is stored
WorkerAppendStore(f) ==
    /\ rdPc = "loop"
    /\ worker[f].pc = "store"
    /\ errs' = Append(worker[f].seen, f)
    /\ worker' = [worker EXCEPT ![f].pc = "release"]
    /\ UNCHANGED <<rdPc, rdRet, rdConcurrency, inFiles, rdIdx, rdSem, filterVars>>
    /\ UNCHANGED <<serverVars, dlVars>>

\* The read of the slice while another goroutine stores it: the three words of
\* the slice (pointer, length, capacity) are read and stored without
\* synchronisation, so the length of the stored slice may be read with the
\* pointer of the old one, and the element copied from there is not an error.
Garbage == 0

WorkerAppendReadTorn(f) ==
    /\ rdPc = "loop"
    /\ worker[f].pc = "append"
    /\ \E f1 \in Files : f1 # f /\ worker[f1].pc = "store"
    /\ worker' = [worker EXCEPT ![f].seen = <<Garbage>>, ![f].pc = "store"]
    /\ UNCHANGED <<rdPc, rdRet, rdConcurrency, inFiles, rdIdx, rdSem, errs, filterVars>>
    /\ UNCHANGED <<serverVars, dlVars>>

\* defer sem.Release(1)
WorkerRelease(f) ==
    /\ rdPc = "loop"
    /\ worker[f].pc = "release"
    /\ rdSem' = rdSem - 1
    /\ worker' = [worker EXCEPT ![f].pc = "done"]
    /\ UNCHANGED <<rdPc, rdRet, rdConcurrency, inFiles, rdIdx, errs, filterVars>>
    /\ UNCHANGED <<serverVars, dlVars>>

\* sem.Acquire(ctx, int64(o.params.concurrency)) returns once the whole size is free
RdAllReleased(held, size) == CanAcquire(held, size, size)

\* wait for all goroutines to finish
RdWait ==
    /\ rdPc = "loop"
    /\ rdIdx > Len(inFiles)
    /\ RdAllReleased(rdSem, rdConcurrency)
    /\ rdSem' = rdSem + rdConcurrency
    /\ rdPc' = "check"
    /\ UNCHANGED <<rdRet, rdConcurrency, inFiles, rdIdx, errs, worker, filterVars>>
    /\ UNCHANGED <<serverVars, dlVars>>

\* if len(errs) > 0 { for _, err := range errs { ... err.Error() ... }; return errors.New(...) }
\* return nil.  err.Error() on an element that is not an error panics.
RdFinish ==
    /\ rdPc = "check"
    /\ IF \E i \in 1..Len(errs) : errs[i] = Garbage
       THEN rdPc' = "crashed" /\ rdRet' = "none"
       ELSE rdPc' = "returned" /\ rdRet' = IF Len(errs) > 0 THEN "err" ELSE "nil"
    /\ UNCHANGED <<rdConcurrency, inFiles, rdIdx, rdSem, errs, worker, filterVars>>
    /\ UNCHANGED <<serverVars, dlVars>>

ReduceNext ==
    \/ RdStart(TRUE)
    \/ RdStart(FALSE)
    \/ RdSpawn
    \/ RdWait
    \/ RdFinish
    \/ \E f \in Files : WorkerProcess(f, TRUE)
    \/ \E f \in Files : WorkerProcess(f, FALSE)
    \/ \E f \in Files : WorkerAppendRead(f)
    \/ \E f \in Files : WorkerAppendReadTorn(f)
    \/ \E f \in Files : WorkerAppendStore(f)
    \/ \E f \in Files : WorkerRelease(f)

ReduceSpec == ReduceInit /\ [][ReduceNext]_vars

\* The workers between Acquire and Release.
Processing == {f \in Files : worker[f].pc \notin {"none", "done"}}

\* processFile returned an error for file f.
FileFailed(f) == worker[f].res = "err"


(***************************************************************************)
(* C31: once the input files are listed, Execute has at most `concurrency` *)
(* files in processing at a time; its run ends only when processFile has   *)
(* finished for every input file, and it ends with the return of an error  *)
(* if processFile returned an error for at least one file and with the     *)
(* return of nil otherwise.                                                *)
(***************************************************************************)
C31_CompletionAndErrors ==
    /\ rdPc = "loop" => Cardinality(Processing) <= rdConcurrency
    /\ (rdPc \in {"check", "returned", "crashed"} /\ rdIdx > 0) =>
          /\ \A i \in 1..Len(inFiles) : worker[inFiles[i]].pc = "done"
          /\ rdPc # "check" =>
                rdRet = IF \E f \in Files : FileFailed(f) THEN "err" ELSE "nil"

\* What holds in spite of the unsynchronised append: the bound on the files in
\* processing, and that a return comes after every worker has finished and is
\* an error exactly when processFile failed for a file.
C31_WhenItReturns ==
    /\ rdPc = "loop" => Cardinality(Processing) <= rdConcurrency
    /\ (rdPc \in {"check", "returned"} /\ rdIdx > 0) =>
          /\ \A i \in 1..Len(inFiles) : worker[inFiles[i]].pc = "done"
          /\ rdPc = "returned" =>
                rdRet = IF \E f \in Files : FileFailed(f) THEN "err" ELSE "nil"


(***************************************************************************)
(* The filter of the reduce command: makeFilterFunc and the scan loop of   *)
(* processFile over the lines of one unzipped file.                        *)
(***************************************************************************)
\* var amm, wallet, baseTokenMint solana.PublicKey: the zero value, 32 zero bytes,
\* which is also the key that the base58 string "11111111111111111111111111111111" stands for
ZeroKey == 0

Keys == 0..MaxKey

\* The string of an account field of a row: the base58 form of a key, or a
\* string that is no key (empty or malformed).
Str(k) == [valid |-> TRUE, key |-> k]
BadStr == [valid |-> FALSE, key |-> ZeroKey]
FieldStrings == {Str(k) : k \in Keys} \cup {BadStr}

\* solana.PublicKeyFromBase58: on an error the zero key is returned (and the error logged)
PublicKeyFromBase58(str) == IF str.valid THEN str.key ELSE ZeroKey

\* EventRow: Pair and Swap are pointers, nil when the line has no such object;
\* json says whether json.Unmarshal accepts the line.
NoObject == [present |-> FALSE, AmmAccount |-> BadStr, BaseToken |-> BadStr,
             BaseTokenMint |-> BadStr, WalletAccount |-> BadStr]
PairRow(a, b) == [json |-> TRUE,
                  Pair |-> [present |-> TRUE, AmmAccount |-> a, BaseToken |-> b,
                            BaseTokenMint |-> BadStr, WalletAccount |-> BadStr],
                  Swap |-> NoObject]
SwapRow(a, b, w) == [json |-> TRUE,
                     Pair |-> NoObject,
                     Swap |-> [present |-> TRUE, AmmAccount |-> a, BaseToken |-> BadStr,
                               BaseTokenMint |-> b, WalletAccount |-> w]]
OtherRow == [json |-> TRUE, Pair |-> NoObject, Swap |-> NoObject]
MalformedRow == [json |-> FALSE, Pair |-> NoObject, Swap |-> NoObject]

\* The lines of an archive file: a pair object or a swap object, a line with
\* neither, or a line that is no JSON.
EventRows ==
    {PairRow(a, b) : a \in FieldStrings, b \in FieldStrings}
    \cup {SwapRow(a, b, w) : a \in FieldStrings, b \in FieldStrings, w \in FieldStrings}
    \cup {OtherRow, MalformedRow}

RowFiles == UNION {[1..n -> EventRows] : n \in 0..MaxRows}

\* The keys the filter compares: those of the pair, else those of the swap, else zero keys.
RowKeys(row) ==
    IF row.Pair.present
    THEN [amm |-> PublicKeyFromBase58(row.Pair.AmmAccount),
          baseTokenMint |-> PublicKeyFromBase58(row.Pair.BaseToken),
          wallet |-> ZeroKey]
    ELSE IF row.Swap.present
    THEN [amm |-> PublicKeyFromBase58(row.Swap.AmmAccount),
          baseTokenMint |-> PublicKeyFromBase58(row.Swap.BaseTokenMint),
          wallet |-> PublicKeyFromBase58(row.Swap.WalletAccount)]
    ELSE [amm |-> ZeroKey, baseTokenMint |-> ZeroKey, wallet |-> ZeroKey]

\* if len(list) != 0 { for _, v := range list { if v.Equals(key) { return true } } }
MatchesAny(list, key) == list # {} /\ \E v \in list : v = key

\* the function makeFilterFunc returns
filterFunc(row) ==
    \/ MatchesAny(amms, RowKeys(row).amm)
    \/ MatchesAny(baseTokenMints, RowKeys(row).baseTokenMint)
    \/ MatchesAny(wallets, RowKeys(row).wallet)

\* processParams turns the three comma separated flags into lists of keys
\* (any valid key, the key of "11111111111111111111111111111111" included);
\* processFile has unzipped a file and opens it for scanning.
FilterInit ==
    /\ SimIdle
    /\ DlIdle
    /\ rdPc = "scan"
    /\ rdRet = "none"
    /\ rdConcurrency = 10
    /\ inFiles = <<>>
    /\ rdIdx = 0
    /\ rdSem = 0
    /\ errs = <<>>
    /\ worker = <<>>
    /\ amms \in SUBSET Keys
    /\ baseTokenMints \in SUBSET Keys
    /\ wallets \in SUBSET Keys
    /\ inRows \in RowFiles
    /\ outRows = <<>>
    /\ scanned = 0

\* for scanner.Scan() { ...; if filterFunc(eventRow) { io.Copy(outFile, row + '\n') } }
ScanRow ==
    /\ rdPc = "scan"
    /\ scanned < Len(inRows)
    /\ inRows[scanned + 1].json
    /\ scanned' = scanned + 1
    /\ outRows' = IF filterFunc(inRows[scanned + 1])
                  THEN Append(outRows, inRows[scanned + 1])
                  ELSE outRows
    /\ UNCHANGED <<rdPc, rdRet, rdConcurrency, inFiles, rdIdx, rdSem, errs, worker,
                   amms, baseTokenMints, wallets, inRows>>
    /\ UNCHANGED <<serverVars, dlVars>>

\* err := json.Unmarshal(row, &eventRow); if err != nil { return errors.Wrap(...) }
ScanFail ==
    /\ rdPc = "scan"
    /\ scanned < Len(inRows)
    /\ ~inRows[scanned + 1].json
    /\ rdPc' = "returned"
    /\ rdRet' = "err"
    /\ UNCHANGED <<rdConcurrency, inFiles, rdIdx, rdSem, errs, worker, filterVars>>
    /\ UNCHANGED <<serverVars, dlVars>>

\* scanner.Scan() returns false at the end of the file; the file is closed
ScanEnd ==
    /\ rdPc = "scan"
    /\ scanned = Len(inRows)
    /\ rdPc' = "returned"
    /\ rdRet' = "nil"
    /\ UNCHANGED <<rdConcurrency, inFiles, rdIdx, rdSem, errs, worker, filterVars>>
    /\ UNCHANGED <<serverVars, dlVars>>

FilterNext ==
    \/ ScanRow
    \/ ScanFail
    \/ ScanEnd

FilterSpec == FilterInit /\ [][FilterNext]_vars

\* the lines that went through the filter so far
Scanned == SubSeq(inRows, 1, scanned)

\* the account string names one of the configured keys
IsOneOf(str, list) == str.valid /\ str.key \in list

\* What the filter is to select: a pair row by its AMM account or base token
\* account, a swap row by its AMM account, base token mint or wallet account.
Wanted(row) ==
    \/ /\ row.Pair.present
       /\ \/ IsOneOf(row.Pair.AmmAccount, amms)
          \/ IsOneOf(row.Pair.BaseToken, baseTokenMints)
    \/ /\ row.Swap.present
       /\ \/ IsOneOf(row.Swap.AmmAccount, amms)
          \/ IsOneOf(row.Swap.BaseTokenMint, baseTokenMints)
          \/ IsOneOf(row.Swap.WalletAccount, wallets)

\* C32: the reduced output holds, in input order, exactly the rows read whose AMM
\* account is one of the configured amms, or whose base token mint is one of the
\* configured baseTokenMints, or whose wallet account is one of the configured
\* wallets; an empty list matches nothing and a pair row never matches on wallet.
C32_FilterSelects ==
    /\ outRows = SelectSeq(Scanned, Wanted)
    /\ \A i \in 1..Len(outRows) :
          outRows[i].Pair.present =>
             \/ IsOneOf(outRows[i].Pair.AmmAccount, amms)
             \/ IsOneOf(outRows[i].Pair.BaseToken, baseTokenMints)
    /\ (amms = {} /\ baseTokenMints = {} /\ wallets = {}) => outRows = <<>>

\* The zero key is in none of the lists.
NoZeroKey == ZeroKey \notin (amms \cup baseTokenMints \cup wallets)

\* C32 where the zero key is not configured: the same selection.
C32_FilterSelectsWithoutZeroKey == NoZeroKey => C32_FilterSelects

\* C32: the order of the output is the order of the input and an empty
\* configuration matches nothing, whatever the keys.
C32_OrderAndEmptyLists ==
    /\ outRows = SelectSeq(Scanned, filterFunc)
    /\ (amms = {} /\ baseTokenMints = {} /\ wallets = {}) => outRows = <<>>
====
